---- MODULE Spec2Model ----
(***************************************************************************)
(* Risk scoring of a price series (APFinancePage).                         *)
(*                                                                         *)
(* The program's numbers are IEEE doubles.  They are modelled as extended  *)
(* rationals <<n, d>> in lowest terms with d >= 0:                          *)
(*   d > 0        the finite number n/d                                     *)
(*   <<1, 0>>     +Infinity        <<-1, 0>>   -Infinity                    *)
(*   <<0, 0>>     NaN                                                       *)
(* so that x/0, 0/0, Math.min, Math.max, Math.round and the comparisons     *)
(* behave as in JavaScript; arithmetic on finite values is exact (no       *)
(* binary rounding error) and the sign of zero is not tracked.             *)
(* Time is counted in quarter days (6 hours); a year of 365.25 days is    *)
(* 1461 quarter days.                                                      *)
(***************************************************************************)
EXTENDS Integers, Sequences, FiniteSets, TLC

VARIABLES
    \* ---- moving-average library (calculateSMA / calculateEMA) ----
    maData,       \* the number[] handed to the library
    maPeriod,     \* the period argument
    smaOut,       \* result of calculateSMA, once run
    emaOut,       \* result of calculateEMA, once run
    \* ---- risk calculator (calculateRisk) ----
    dataPoints,   \* StockDataPoint[] handed to calculateRisk
    config,       \* Partial<RiskCalculationConfig> handed to calculateRisk
    currentDate,  \* what new Date() returns during the run
    scored,       \* result of calculateRisk(dataPoints, config), once run
    rescored,     \* result of calculateRisk(scored, config), once run
    legacyScored, \* result of the scorer of scripts/generate-csv.js, once run
    \* ---- analysis service (processStockData) ----
    priceData,    \* PriceData[] returned by the data provider
    stockConfig,  \* StockConfig of the symbol
    processed,    \* result of processStockData, once run
    \* ---- CSV scripts (generate / update) ----
    csvScenario,  \* which scripts run, and how much history the API has
    csvFile,      \* the CSV file of the symbol
    csvWritten,   \* the data of the last writeCSV, as it was in memory
    csvLoaded,    \* result of loadExistingCSV on the file, once read back
    \* ---- browser clients (getCurrentRiskAndPrice, NVDARiskChart) ----
    clientCsv,    \* what fetching the CSV file gives
    clientLatest, \* what the latest-price endpoint gives
    fetchApi,     \* what /api/stock-analysis gives
    chartApi,     \* what /api/nvda-data-yahoo and /api/nvda-data give
    fetched,      \* outcome of getCurrentRiskAndPrice, once run
    charted,      \* state fetchData of NVDARiskChart sets, once run
    \* ---- a second run of calculateRisk at a later date ----
    scoredLater,  \* result of calculateRisk(dataPoints, config) at a later date
    \* ---- StockRiskChart (the effect that fetches) ----
    chartSymbol,  \* the symbol prop of the component
    chartRequests,\* the fetches the effect has started, and how each ended
    chartState,   \* data, currentPrice, currentRisk, loading and error
    \* ---- updateAllCSVs ----
    batchOutcomes,\* what updateStockCSV will meet for each symbol
    batchResults, \* the results array
    stockFiles,   \* the CSV file of each symbol (how often it was written)
    legacyFile,   \* nvda-historical-data.csv: the NVDA.csv it was copied from
    exitCode      \* exit code of the process, once it has exited

vars == <<maData, maPeriod, smaOut, emaOut,
          dataPoints, config, currentDate, scored, rescored, legacyScored,
          priceData, stockConfig, processed,
          csvScenario, csvFile, csvWritten, csvLoaded,
          clientCsv, clientLatest, fetchApi, chartApi, fetched, charted,
          scoredLater, chartSymbol, chartRequests, chartState,
          batchOutcomes, batchResults, stockFiles, legacyFile, exitCode>>

maVars == <<maData, maPeriod, smaOut, emaOut>>
riskVars == <<dataPoints, config, currentDate, scored, rescored, legacyScored, scoredLater>>
svcVars == <<priceData, stockConfig, processed>>
csvVars == <<csvScenario, csvFile, csvWritten, csvLoaded>>
clientVars == <<clientCsv, clientLatest, fetchApi, chartApi, fetched, charted>>
chartVars == <<chartSymbol, chartRequests, chartState>>
batchVars == <<batchOutcomes, batchResults, stockFiles, legacyFile, exitCode>>

-----------------------------------------------------------------------------
(* Bounds of the model *)

\* longest number[] handed to the moving-average library
MaxLen == 3
\* largest period handed to the moving-average library
MaxPeriod == 4
\* periods range down to -MaxNegPeriod
MaxNegPeriod == 2

\* longest run of freely chosen points at the end of a scored series
MaxTail == 3
\* the same for the series handed to the enhanced algorithm
MaxEnhancedTail == 1
\* the days the CSV scripts are watched over: 0..MaxDay after the history
MaxDay == 1
\* most rows the CSV file gets beyond its history
MaxRows == 3
\* most rows of the CSV file a browser client is served
MaxClientRows == 2

\* prices the inputs are drawn from
PriceSet == {8, 10, 12}

-----------------------------------------------------------------------------
(* IEEE-like numbers as extended rationals *)

Abs(x) == IF x < 0 THEN -x ELSE x
Sgn(x) == IF x < 0 THEN -1 ELSE IF x > 0 THEN 1 ELSE 0
MinInt(a, b) == IF a <= b THEN a ELSE b
MaxInt(a, b) == IF a >= b THEN a ELSE b

RECURSIVE GCD(_, _)
GCD(a, b) == IF b = 0 THEN a ELSE GCD(b, a % b)

Norm(n, d) ==
    IF d = 0 THEN <<Sgn(n), 0>>
    ELSE LET g == GCD(Abs(n), Abs(d))
             s == IF d < 0 THEN -1 ELSE 1
         IN  <<(s * n) \div g, (s * d) \div g>>

I(n) == <<n, 1>>
Zero == I(0)
NaN == <<0, 0>>
PosInf == <<1, 0>>
NegInf == <<-1, 0>>
\* a decimal literal with two places, e.g. Dec2(15) is 0.15
Dec2(h) == Norm(h, 100)

IsNaN(a) == a = NaN
IsFinite(a) == a[2] > 0

RAdd(a, b) ==
    IF a[2] = 0 /\ b[2] = 0
    THEN (IF a[1] = b[1] THEN a ELSE NaN)
    ELSE IF a[2] = 0 THEN a
    ELSE IF b[2] = 0 THEN b
    ELSE LET g == GCD(a[2], b[2])
         IN  Norm(a[1] * (b[2] \div g) + b[1] * (a[2] \div g), (a[2] \div g) * b[2])
RNeg(a) == <<-a[1], a[2]>>
RSub(a, b) == RAdd(a, RNeg(b))
RMul(a, b) ==
    IF a[2] = 0 \/ b[2] = 0 THEN Norm(a[1] * b[1], 0)
    ELSE LET g1 == GCD(Abs(a[1]), b[2])
             g2 == GCD(Abs(b[1]), a[2])
         IN  Norm((a[1] \div g1) * (b[1] \div g2), (a[2] \div g2) * (b[2] \div g1))
\* 1 / b
RInv(b) ==
    IF b[1] < 0 THEN <<-b[2], -b[1]>> ELSE <<b[2], b[1]>>
RDiv(a, b) == RMul(a, RInv(b))

\* the numerators of a and b over their least common denominator
OverCommon(a, b) ==
    IF a[2] = 0 \/ b[2] = 0 THEN <<a[1] * b[2], b[1] * a[2]>>
    ELSE LET g == GCD(a[2], b[2])
         IN  <<a[1] * (b[2] \div g), b[1] * (a[2] \div g)>>

RLt(a, b) ==
    /\ ~IsNaN(a)
    /\ ~IsNaN(b)
    /\ IF a[2] = 0 /\ b[2] = 0 THEN a[1] < b[1]
       ELSE OverCommon(a, b)[1] < OverCommon(a, b)[2]
RLe(a, b) ==
    /\ ~IsNaN(a)
    /\ ~IsNaN(b)
    /\ IF a[2] = 0 /\ b[2] = 0 THEN a[1] <= b[1]
       ELSE OverCommon(a, b)[1] <= OverCommon(a, b)[2]
RGt(a, b) == RLt(b, a)
RGe(a, b) == RLe(b, a)

\* Math.min / Math.max of two numbers (NaN if either is NaN)
MathMin(a, b) == IF IsNaN(a) \/ IsNaN(b) THEN NaN ELSE IF RLe(a, b) THEN a ELSE b
MathMax(a, b) == IF IsNaN(a) \/ IsNaN(b) THEN NaN ELSE IF RGe(a, b) THEN a ELSE b
\* Math.abs
MathAbs(a) == <<Abs(a[1]), a[2]>>
\* Math.round: floor(x + 0.5)
MathRound(a) ==
    IF a[2] = 0 THEN a ELSE I((2 * a[1] + a[2]) \div (2 * a[2]))
\* Math.round(x * 100) / 100
Round2(a) == RDiv(MathRound(RMul(a, I(100))), I(100))
\* JavaScript truthiness of a number: 0 and NaN are falsy
Truthy(a) == ~IsNaN(a) /\ a # Zero

\* Array.prototype.slice(start, end) on 0-based indices
JsSlice(s, start, end) ==
    LET n == Len(s)
        from == IF start < 0 THEN MaxInt(n + start, 0) ELSE MinInt(start, n)
        to == IF end < 0 THEN MaxInt(n + end, 0) ELSE MinInt(end, n)
    IN  IF from >= to THEN <<>> ELSE SubSeq(s, from + 1, to)

\* reduce((acc, val) => acc + val, 0): the sum of s[lo..hi].  Addition is
\* exact here, so the order of the additions does not matter; the range is
\* halved to keep the evaluation shallow.
RECURSIVE SumBetween(_, _, _)
SumBetween(s, lo, hi) ==
    IF lo > hi THEN Zero
    ELSE IF lo = hi THEN RAdd(Zero, s[lo])
    ELSE LET mid == (lo + hi) \div 2
         IN  RAdd(SumBetween(s, lo, mid), SumBetween(s, mid + 1, hi))
Sum(s) == SumBetween(s, 1, Len(s))

-----------------------------------------------------------------------------
(* Moving-average library *)

\* SMAWindow with the current value left out of the window
SMAWindowDropsCurrent(data, period, i) == JsSlice(data, i - period + 1, i)

\* the slice of the trailing period values ending at 0-based index i
SMAWindow(data, period, i) == JsSlice(data, i - period + 1, i + 1)

calculateSMA(data, period) ==
    [k \in 1..Len(data) |->
        LET i == k - 1
        IN  IF i < period - 1 THEN Zero
            ELSE RDiv(Sum(SMAWindow(data, period, i)), I(period))]

EMAMultiplier(period) == RDiv(I(2), I(period + 1))

\* EMAStep with the two weights exchanged
EMAStepSwapped(x, prev, multiplier) ==
    RAdd(RMul(x, RSub(I(1), multiplier)), RMul(prev, multiplier))

\* one step of the recurrence: data[i] * multiplier + ema[i-1] * (1 - multiplier)
EMAStep(x, prev, multiplier) ==
    RAdd(RMul(x, multiplier), RMul(prev, RSub(I(1), multiplier)))

\* the loop from i = lo to hi (1-based), with prev the value pushed before
\* it: every value is the step applied to its predecessor; the range is
\* halved to keep the evaluation shallow
RECURSIVE EMABetween(_, _, _, _, _)
EMABetween(data, multiplier, lo, hi, prev) ==
    IF lo > hi THEN <<>>
    ELSE IF lo = hi THEN <<EMAStep(data[lo], prev, multiplier)>>
    ELSE LET mid == (lo + hi) \div 2
             ema == EMABetween(data, multiplier, lo, mid, prev)
         IN  ema \o EMABetween(data, multiplier, mid + 1, hi, ema[Len(ema)])

calculateEMA(data, period) ==
    IF data = <<>> THEN <<>>
    ELSE <<data[1]>> \o EMABetween(data, EMAMultiplier(period), 2, Len(data), data[1])

-----------------------------------------------------------------------------
(* Risk calculator *)

\* the volatility adjustment needs index > 50
VolHistory == 50
\* the enhanced algorithm scores from index 130 on
EnhancedWarmup == 130
\* windows of the enhanced algorithm: volatility, deviation and volatility percentile
VolatilityPeriod == 65
DeviationWindow == 780
VolatilityWindow == 520

\* element at 0-based index i
At(s, i) == s[i + 1]

\* the instant of 00:00 UTC of a day
Midnight(day) == 4 * day

\* DEFAULT_CONFIG (periods in trading days)
DEFAULT_CONFIG ==
    [algorithm |-> "ema-focused",
     emaPeriods |-> [short |-> 8 * 5, medium |-> 21 * 5],
     smaPeriods |-> [short |-> 50 * 5, medium |-> 100 * 5,
                     long |-> 200 * 5, extraLong |-> 400 * 5],
     riskThresholds |-> [yellowTerritory |-> Dec2(15),
                         elevatedTerritory |-> Dec2(8),
                         nearEMA |-> Dec2(-5)]]

\* { ...DEFAULT_CONFIG, ...config }: a shallow merge, the keys of config win
MergeConfig(base, cfg) ==
    [k \in (DOMAIN base) \cup (DOMAIN cfg) |->
        IF k \in DOMAIN cfg THEN cfg[k] ELSE base[k]]

\* (price - level) / level
Deviation(price, level) == RDiv(RSub(price, level), level)

\* Guarded without the test of ema21
GuardedIgnoresEma21(point) == point.sma50 = Zero \/ point.ema8 = Zero

\* the guard of the ema-focused scorer: no data yet
Guarded(point) == point.sma50 = Zero \/ point.ema8 = Zero \/ point.ema21 = Zero

\* years between the current date and the point: quarter days / 1461
YearsFromNow(point, now) == RDiv(I(now - point.date), I(1461))

\* 1 = very recent, 0 = old data
ModernWeight(point, now) ==
    MathMax(Zero, MathMin(I(1), RDiv(RSub(I(5), YearsFromNow(point, now)), I(5))))

\* the territories below nearEMA, as the variants of STEP 1 below share them
LowTerritoryRisk(dev21EMA, dev50SMA, dev100SMA, dev200SMA) ==
    IF RGe(dev21EMA, Dec2(-8)) THEN
        IF RGe(dev21EMA, Zero)
        THEN RAdd(Dec2(400), RDiv(dev21EMA, Dec2(8)))
        ELSE RAdd(Dec2(300), RDiv(RAdd(dev21EMA, Dec2(8)), Dec2(8)))
    ELSE
        LET deepestDeviation == MathMin(MathMin(dev50SMA, dev100SMA), dev200SMA)
        IN  IF RLe(deepestDeviation, Dec2(-25)) THEN Dec2(100)
            ELSE IF RLe(deepestDeviation, Dec2(-15)) THEN Dec2(150)
            ELSE IF RLe(deepestDeviation, Dec2(-8)) THEN Dec2(200)
            ELSE IF RLe(dev50SMA, Dec2(-3)) THEN Dec2(250)
            ELSE Dec2(300)

\* STEP 1 with the bands above the yellow territory at 0.18, 0.22 and 0.30
\* whatever the threshold
BaseRiskFixedBands(dev8EMA, dev21EMA, dev50SMA, dev100SMA, dev200SMA, thresholds) ==
    LET yellow == thresholds.yellowTerritory
        elevated == thresholds.elevatedTerritory
        near == thresholds.nearEMA
    IN  IF RGe(dev8EMA, yellow) THEN
            IF RGe(dev8EMA, Dec2(30)) THEN Dec2(950)
            ELSE IF RGe(dev8EMA, Dec2(22)) THEN Dec2(900)
            ELSE IF RGe(dev8EMA, Dec2(18)) THEN Dec2(850)
            ELSE Dec2(800)
        ELSE IF RGe(dev8EMA, elevated) THEN
            RAdd(Dec2(650), RMul(RDiv(RSub(dev8EMA, elevated), RSub(yellow, elevated)),
                                 Dec2(150)))
        ELSE IF RGe(dev8EMA, near) THEN
            RAdd(Dec2(500), RMul(RDiv(RSub(dev8EMA, near), RSub(elevated, near)),
                                 Dec2(150)))
        ELSE LowTerritoryRisk(dev21EMA, dev50SMA, dev100SMA, dev200SMA)

\* STEP 1 with the territories tested from the bottom: nearEMA first, the
\* yellow territory last
BaseRiskBottomUp(dev8EMA, dev21EMA, dev50SMA, dev100SMA, dev200SMA, thresholds) ==
    LET yellow == thresholds.yellowTerritory
        elevated == thresholds.elevatedTerritory
        near == thresholds.nearEMA
    IN  IF ~RGe(dev8EMA, near)
        THEN LowTerritoryRisk(dev21EMA, dev50SMA, dev100SMA, dev200SMA)
        ELSE IF ~RGe(dev8EMA, elevated) THEN
            RAdd(Dec2(500), RMul(RDiv(RSub(dev8EMA, near), RSub(elevated, near)),
                                 Dec2(150)))
        ELSE IF ~RGe(dev8EMA, yellow) THEN
            RAdd(Dec2(650), RMul(RDiv(RSub(dev8EMA, elevated), RSub(yellow, elevated)),
                                 Dec2(150)))
        ELSE IF RGe(dev8EMA, RMul(yellow, I(2))) THEN Dec2(950)
        ELSE IF RGe(dev8EMA, RMul(yellow, Dec2(150))) THEN Dec2(900)
        ELSE IF RGe(dev8EMA, RMul(yellow, Dec2(120))) THEN Dec2(850)
        ELSE Dec2(800)

\* STEP 1: base risk from the EMA position
BaseRisk(dev8EMA, dev21EMA, dev50SMA, dev100SMA, dev200SMA, thresholds) ==
    LET yellow == thresholds.yellowTerritory
        elevated == thresholds.elevatedTerritory
        near == thresholds.nearEMA
    IN  IF RGe(dev8EMA, yellow) THEN
            IF RGe(dev8EMA, RMul(yellow, I(2))) THEN Dec2(950)
            ELSE IF RGe(dev8EMA, RMul(yellow, Dec2(150))) THEN Dec2(900)
            ELSE IF RGe(dev8EMA, RMul(yellow, Dec2(120))) THEN Dec2(850)
            ELSE Dec2(800)
        ELSE IF RGe(dev8EMA, elevated) THEN
            LET range == RSub(yellow, elevated)
                position == RDiv(RSub(dev8EMA, elevated), range)
            IN  RAdd(Dec2(650), RMul(position, Dec2(150)))
        ELSE IF RGe(dev8EMA, near) THEN
            LET range == RSub(elevated, near)
                position == RDiv(RSub(dev8EMA, near), range)
            IN  RAdd(Dec2(500), RMul(position, Dec2(150)))
        ELSE IF RGe(dev21EMA, Dec2(-8)) THEN
            IF RGe(dev21EMA, Zero)
            THEN RAdd(Dec2(400), RMul(RDiv(dev21EMA, Dec2(8)), I(1)))
            ELSE RAdd(Dec2(300), RMul(RDiv(RAdd(dev21EMA, Dec2(8)), Dec2(8)), I(1)))
        ELSE
            LET deepestDeviation == MathMin(MathMin(dev50SMA, dev100SMA), dev200SMA)
            IN  IF RLe(deepestDeviation, Dec2(-25)) THEN Dec2(100)
                ELSE IF RLe(deepestDeviation, Dec2(-15)) THEN Dec2(150)
                ELSE IF RLe(deepestDeviation, Dec2(-8)) THEN Dec2(200)
                ELSE IF RLe(dev50SMA, Dec2(-3)) THEN Dec2(250)
                ELSE Dec2(300)

\* the adjustments of STEP 2 in proportion to the weight
TimeAdjustScaled(risk, modernWeight) ==
    IF RLe(risk, I(3)) THEN RSub(risk, RMul(Dec2(20), modernWeight))
    ELSE IF RGe(risk, I(7)) THEN RAdd(risk, RMul(Dec2(10), modernWeight))
    ELSE risk

\* STEP 2: modern time-based adjustments
TimeAdjust(risk, modernWeight) ==
    IF RGt(modernWeight, Dec2(70)) THEN
        IF RLe(risk, I(3)) THEN RSub(risk, Dec2(20))
        ELSE IF RGe(risk, I(7)) THEN RAdd(risk, Dec2(10))
        ELSE risk
    ELSE risk

\* recentPrices.slice(1).map((price, i) => (price - recentPrices[i]) / recentPrices[i])
PriceChanges(recentPrices) ==
    [k \in 1..(Len(recentPrices) - 1) |->
        RDiv(RSub(recentPrices[k + 1], recentPrices[k]), recentPrices[k])]

\* sum of change * change over priceChanges, divided by priceChanges.length:
\* the square of the volatility the code takes the root of
MeanSquareChange(points, index) ==
    LET recent == JsSlice(points, MaxInt(0, index - 20), index + 1)
        recentPrices == [k \in 1..Len(recent) |-> recent[k].price]
        priceChanges == PriceChanges(recentPrices)
        squares == [k \in 1..Len(priceChanges) |-> RMul(priceChanges[k], priceChanges[k])]
    IN  RDiv(Sum(squares), I(Len(priceChanges)))

\* STEP 3: volatility adjustment.  volatility > 0.06 is decided on the squares
\* (both sides are >= 0, Math.sqrt is increasing and keeps NaN and Infinity).
VolatilityAdjust(risk, points, index, modernWeight) ==
    IF RGt(modernWeight, Dec2(30)) /\ index > VolHistory THEN
        LET volatilitySquared == MeanSquareChange(points, index)
        IN  IF RGt(volatilitySquared, RMul(Dec2(6), Dec2(6))) THEN RSub(risk, Dec2(20))
            ELSE IF RGt(volatilitySquared, RMul(Dec2(4), Dec2(4))) THEN RSub(risk, Dec2(10))
            ELSE risk
    ELSE risk

\* the alignment with a deviation of exactly 0 counted as upward
TrendAlignmentZeroUp(dev8EMA, dev21EMA, dev50SMA) ==
    RDiv(I((IF RGe(dev8EMA, Zero) THEN 1 ELSE -1)
           + (IF RGe(dev21EMA, Zero) THEN 1 ELSE -1)
           + (IF RGe(dev50SMA, Zero) THEN 1 ELSE -1)), I(3))

\* STEP 4: trend consistency
TrendAlignment(dev8EMA, dev21EMA, dev50SMA) ==
    RDiv(I((IF RGt(dev8EMA, Zero) THEN 1 ELSE -1)
           + (IF RGt(dev21EMA, Zero) THEN 1 ELSE -1)
           + (IF RGt(dev50SMA, Zero) THEN 1 ELSE -1)), I(3))

TrendAdjust(risk, trendAlignment) ==
    IF RGt(MathAbs(trendAlignment), Dec2(60))
    THEN RAdd(risk, RMul(trendAlignment, Dec2(15)))
    ELSE risk

\* Math.max(1, Math.min(10, risk))
Clamp(risk) == MathMax(I(1), MathMin(I(10), risk))

\* the risk of an unguarded point after STEP 1-4 and the final bounds,
\* before smoothing and rounding
ClampedRisk(points, index, thresholds, now) ==
    LET point == At(points, index)
        modernWeight == ModernWeight(point, now)
        dev8EMA == Deviation(point.price, point.ema8)
        dev21EMA == Deviation(point.price, point.ema21)
        dev50SMA == Deviation(point.price, point.sma50)
        dev100SMA == Deviation(point.price, point.sma100)
        dev200SMA == Deviation(point.price, point.sma200)
        base == BaseRisk(dev8EMA, dev21EMA, dev50SMA, dev100SMA, dev200SMA, thresholds)
        timed == TimeAdjust(base, modernWeight)
        calmed == VolatilityAdjust(timed, points, index, modernWeight)
        trended == TrendAdjust(calmed, TrendAlignment(dev8EMA, dev21EMA, dev50SMA))
    IN  Clamp(trended)

\* Smooth without the test for the last point
SmoothAlsoLast(risk, points, index) ==
    IF index > 0
    THEN LET prev == At(points, index - 1).risk
             prevRisk == IF Truthy(prev) THEN prev ELSE risk
         IN  RAdd(RMul(risk, Dec2(80)), RMul(prevRisk, Dec2(20)))
    ELSE risk

\* light smoothing: all but the first and the last point are blended with
\* dataPoints[index - 1]?.risk || risk, the risk field of the array that was
\* passed in
Smooth(risk, points, index) ==
    IF index > 0 /\ index < Len(points) - 1
    THEN LET prev == At(points, index - 1).risk
             prevRisk == IF Truthy(prev) THEN prev ELSE risk
         IN  RAdd(RMul(risk, Dec2(80)), RMul(prevRisk, Dec2(20)))
    ELSE risk

\* the callback of dataPoints.map in calculateEMAFocusedRisk
EMAFocusedPoint(points, index, thresholds, now) ==
    LET point == At(points, index)
    IN  IF Guarded(point) THEN [point EXCEPT !.risk = I(5)]
        ELSE [point EXCEPT !.risk =
                Round2(Smooth(ClampedRisk(points, index, thresholds, now),
                              points, index))]

calculateEMAFocusedRisk(points, cfg, now) ==
    [k \in 1..Len(points) |->
        EMAFocusedPoint(points, k - 1, cfg.riskThresholds, now)]

\* the callback of dataPoints.map in calculateSimpleRisk
SimplePoint(point) ==
    LET dev200 == IF RGt(point.sma200, Zero)
                  THEN Deviation(point.price, point.sma200) ELSE Zero
        dev8 == IF RGt(point.ema8, Zero)
                THEN Deviation(point.price, point.ema8) ELSE Zero
        risk == IF RLe(dev200, Zero) THEN I(1)
                ELSE IF RGe(dev8, Dec2(30)) THEN I(10)
                ELSE LET normalizedRisk == MathMin(RDiv(dev8, Dec2(30)), I(1))
                     IN  RAdd(I(1), RMul(normalizedRisk, I(9)))
    IN  [point EXCEPT !.risk = Round2(risk)]

calculateSimpleRisk(points, cfg) ==
    [k \in 1..Len(points) |-> SimplePoint(points[k])]

\* calculateRollingVolatility, without the final Math.sqrt(variance) *
\* Math.sqrt(252): element i is the variance of the returns of the trailing
\* period prices (0 while i < period - 1).  The root times a positive constant
\* is increasing and keeps 0, so ranks among these values (all that
\* calculateEnhancedRisk reads of them) are those of the volatilities.
calculateRollingVolatility(prices, period) ==
    [k \in 1..Len(prices) |->
        LET i == k - 1
        IN  IF i < period - 1 THEN Zero
            ELSE LET slice == JsSlice(prices, i - period + 1, i + 1)
                     returns == PriceChanges(slice)
                     n == Len(returns)
                     mean == RDiv(Sum(returns), I(n))
                     squares == [j \in 1..n |->
                                   RMul(RSub(returns[j], mean), RSub(returns[j], mean))]
                 IN  RDiv(Sum(squares), I(n))]

\* calculateRollingPercentile: the share (in percent) of array[start..index]
\* that is <= value; 50 when fewer than 10 elements
calculateRollingPercentile(value, array, index, window) ==
    LET start == MaxInt(0, index - window)
        slice == JsSlice(array, start, index + 1)
        rank == Cardinality({k \in 1..Len(slice) : RLe(slice[k], value)})
    IN  IF Len(slice) < 10 THEN I(50)
        ELSE RMul(RDiv(I(rank), I(Len(slice))), I(100))

\* percentile200 -> baseRisk
PercentileRisk(percentile200) ==
    IF RLe(percentile200, I(10)) THEN RAdd(I(1), RDiv(percentile200, I(10)))
    ELSE IF RLe(percentile200, I(30))
        THEN RAdd(I(2), RMul(RDiv(RSub(percentile200, I(10)), I(20)), Dec2(150)))
    ELSE IF RLe(percentile200, I(50))
        THEN RAdd(Dec2(350), RMul(RDiv(RSub(percentile200, I(30)), I(20)), Dec2(150)))
    ELSE IF RLe(percentile200, I(70))
        THEN RAdd(I(5), RMul(RDiv(RSub(percentile200, I(50)), I(20)), I(1)))
    ELSE IF RLe(percentile200, I(85))
        THEN RAdd(I(6), RMul(RDiv(RSub(percentile200, I(70)), I(15)), I(1)))
    ELSE IF RLe(percentile200, I(95))
        THEN RAdd(I(7), RMul(RDiv(RSub(percentile200, I(85)), I(10)), I(1)))
    ELSE RAdd(I(8), RMul(RDiv(RSub(percentile200, I(95)), I(5)), Dec2(50)))

\* the callback of dataPoints.map in calculateEnhancedRisk
EnhancedPoint(points, index, volatilities, deviations, cfg) ==
    LET point == At(points, index)
    IN  IF index < EnhancedWarmup THEN [point EXCEPT !.risk = I(5)]
        ELSE
        LET dev200 == Deviation(point.price, point.sma200)
            dev8 == Deviation(point.price, point.ema8)
            vol == At(volatilities, index)
            percentile200 ==
                calculateRollingPercentile(dev200, deviations, index, DeviationWindow)
            base == PercentileRisk(percentile200)
            volPercentile ==
                calculateRollingPercentile(vol, volatilities, index, VolatilityWindow)
            volAdjusted == IF RGt(volPercentile, I(80)) THEN RAdd(base, Dec2(30))
                           ELSE IF RLt(volPercentile, I(20)) THEN RSub(base, Dec2(30))
                           ELSE base
            shortTerm == IF RGt(dev8, cfg.riskThresholds.yellowTerritory)
                            THEN MathMax(volAdjusted, Dec2(750))
                         ELSE IF RLt(dev8, Dec2(-10)) THEN MathMin(volAdjusted, I(4))
                         ELSE volAdjusted
            finalRisk == MathMax(I(1), MathMin(Dec2(850), shortTerm))
        IN  [point EXCEPT !.risk = Round2(finalRisk)]

calculateEnhancedRisk(points, cfg) ==
    LET prices == [k \in 1..Len(points) |-> points[k].price]
        volatilities == calculateRollingVolatility(prices, VolatilityPeriod)
        deviations == [k \in 1..Len(points) |->
                         Deviation(points[k].price, points[k].sma200)]
    IN  [k \in 1..Len(points) |->
            EnhancedPoint(points, k - 1, volatilities, deviations, cfg)]

\* the main risk calculation function: dispatch on the algorithm tag
calculateRisk(points, cfg, now) ==
    LET fullConfig == MergeConfig(DEFAULT_CONFIG, cfg)
    IN  CASE fullConfig.algorithm = "ema-focused" ->
                calculateEMAFocusedRisk(points, fullConfig, now)
          [] fullConfig.algorithm = "enhanced" ->
                calculateEnhancedRisk(points, fullConfig)
          [] fullConfig.algorithm = "simple" ->
                calculateSimpleRisk(points, fullConfig)
          [] OTHER ->
                calculateEMAFocusedRisk(points, fullConfig, now)

-----------------------------------------------------------------------------
(* Analysis service *)

\* EMA periods of 8 and 21 days, not weeks
DailyEmaPeriods == [short |-> 8, medium |-> 21]

\* the periods processStockData takes when riskConfig has no emaPeriods
DefaultEmaPeriods == [short |-> 8 * 5, medium |-> 21 * 5]

\* the config analyzeStock takes for a symbol that STOCK_CONFIGS does not have
FallbackConfig(symbol) ==
    [symbol |-> symbol, name |-> symbol, riskConfig |-> [algorithm |-> "ema-focused"]]

\* processStockData: moving averages over the prices in the order given,
\* zipped into data points with risk 5, handed to calculateRisk
processStockData(data, sc, now) ==
    LET prices == [k \in 1..Len(data) |-> data[k].price]
        riskConfig == sc.riskConfig
        emaPeriods == IF "emaPeriods" \in DOMAIN riskConfig THEN riskConfig.emaPeriods
                      ELSE DefaultEmaPeriods
        smaPeriods == IF "smaPeriods" \in DOMAIN riskConfig THEN riskConfig.smaPeriods
                      ELSE [short |-> 50 * 5, medium |-> 100 * 5,
                            long |-> 200 * 5, extraLong |-> 400 * 5]
        ema8 == calculateEMA(prices, emaPeriods.short)
        ema21 == calculateEMA(prices, emaPeriods.medium)
        sma50 == calculateSMA(prices, smaPeriods.short)
        sma100 == calculateSMA(prices, smaPeriods.medium)
        sma200 == calculateSMA(prices, smaPeriods.long)
        sma400 == calculateSMA(prices, smaPeriods.extraLong)
        points == [k \in 1..Len(data) |->
                     [date |-> data[k].date, price |-> data[k].price,
                      timestamp |-> data[k].timestamp,
                      ema8 |-> ema8[k], ema21 |-> ema21[k],
                      sma50 |-> sma50[k], sma100 |-> sma100[k],
                      sma200 |-> sma200[k], sma400 |-> sma400[k],
                      risk |-> I(5)]]
    IN  calculateRisk(points, riskConfig, now)

-----------------------------------------------------------------------------
(* The scorer of scripts/generate-csv.js and scripts/update-csv-incremental.js *)

\* STEP 1 of the scripts' calculateEMAFocusedRisk: the thresholds are literals
LegacyBaseRisk(dev8EMA, dev21EMA, dev50SMA, dev100SMA, dev200SMA) ==
    IF RGe(dev8EMA, Dec2(15)) THEN
        IF RGe(dev8EMA, Dec2(30)) THEN Dec2(950)
        ELSE IF RGe(dev8EMA, Dec2(22)) THEN Dec2(900)
        ELSE IF RGe(dev8EMA, Dec2(18)) THEN Dec2(850)
        ELSE Dec2(800)
    ELSE IF RGe(dev8EMA, Dec2(8)) THEN
        IF RGe(dev8EMA, Dec2(12))
        THEN RAdd(Dec2(750), RMul(RDiv(RSub(dev8EMA, Dec2(12)), Dec2(3)), Dec2(50)))
        ELSE RAdd(Dec2(650), RMul(RDiv(RSub(dev8EMA, Dec2(8)), Dec2(4)), I(1)))
    ELSE IF RGe(dev8EMA, Dec2(-5)) THEN
        RAdd(Dec2(500), RMul(RDiv(RAdd(dev8EMA, Dec2(5)), Dec2(13)), Dec2(150)))
    ELSE IF RGe(dev21EMA, Dec2(-8)) THEN
        IF RGe(dev21EMA, Zero)
        THEN RAdd(Dec2(400), RMul(RDiv(dev21EMA, Dec2(8)), I(1)))
        ELSE RAdd(Dec2(300), RMul(RDiv(RAdd(dev21EMA, Dec2(8)), Dec2(8)), I(1)))
    ELSE
        LET deepestDeviation == MathMin(MathMin(dev50SMA, dev100SMA), dev200SMA)
        IN  IF RLe(deepestDeviation, Dec2(-25)) THEN Dec2(100)
            ELSE IF RLe(deepestDeviation, Dec2(-15)) THEN Dec2(150)
            ELSE IF RLe(deepestDeviation, Dec2(-8)) THEN Dec2(200)
            ELSE IF RLe(dev50SMA, Dec2(-3)) THEN Dec2(250)
            ELSE Dec2(300)

\* STEP 1-4 and the final bounds of the scripts' scorer
LegacyClampedRisk(points, index, now) ==
    LET point == At(points, index)
        modernWeight == ModernWeight(point, now)
        dev8EMA == Deviation(point.price, point.ema8)
        dev21EMA == Deviation(point.price, point.ema21)
        dev50SMA == Deviation(point.price, point.sma50)
        dev100SMA == Deviation(point.price, point.sma100)
        dev200SMA == Deviation(point.price, point.sma200)
        base == LegacyBaseRisk(dev8EMA, dev21EMA, dev50SMA, dev100SMA, dev200SMA)
        timed == TimeAdjust(base, modernWeight)
        calmed == VolatilityAdjust(timed, points, index, modernWeight)
        trended == TrendAdjust(calmed, TrendAlignment(dev8EMA, dev21EMA, dev50SMA))
    IN  Clamp(trended)

\* the callback of dataPoints.map in the scripts' scorer
LegacyPoint(points, index, now) ==
    LET point == At(points, index)
    IN  IF Guarded(point) THEN [point EXCEPT !.risk = I(5)]
        ELSE [point EXCEPT !.risk =
                Round2(Smooth(LegacyClampedRisk(points, index, now), points, index))]

\* calculateEMAFocusedRisk(dataPoints) of scripts/generate-csv.js
legacyCalculateEMAFocusedRisk(points, now) ==
    [k \in 1..Len(points) |-> LegacyPoint(points, k - 1, now)]

\* days of history after which sma50 (50 * 5 values) exists
HistoryLen == 250

-----------------------------------------------------------------------------
(* CSV files of the scripts: scripts/update-all-stock-csvs.js with          *)
(* generate-all-stock-csvs, scripts/update-csv-incremental.js with          *)
(* scripts/generate-csv.js                                                  *)

\* the calendar day of an instant in a time zone 18 hours behind
ISODateLocal(instant) == (instant - 3) \div 4

\* date.toISOString().split('T')[0]: the UTC calendar day of an instant
ISODate(instant) == instant \div 4

\* x.toFixed(2): the text of the nearest decimal with two places, ties away
\* from zero, kept as its number of hundredths (found digit by digit); NaN
\* and the infinities are printed by name
ToFixed2(x) ==
    IF x[2] = 0
    THEN [text |-> IF IsNaN(x) THEN "NaN"
                   ELSE IF x = PosInf THEN "Infinity" ELSE "-Infinity",
          hundredths |-> 0]
    ELSE LET whole == Abs(x[1]) \div x[2]
             tenths == (10 * (Abs(x[1]) % x[2])) \div x[2]
             rest == (10 * (Abs(x[1]) % x[2])) % x[2]
             places == (10 * rest) \div x[2]
             up == IF 2 * ((10 * rest) % x[2]) >= x[2] THEN 1 ELSE 0
         IN  [text |-> "decimal",
              hundredths |-> Sgn(x[1]) * (100 * whole + 10 * tenths + places + up)]

\* parseFloat of a text written by toFixed(2)
ParseFixed2(field) ==
    IF field.text = "decimal" THEN Norm(field.hundredths, 100)
    ELSE IF field.text = "Infinity" THEN PosInf
    ELSE IF field.text = "-Infinity" THEN NegInf
    ELSE NaN

\* one line of the file.  The price is written with `${price}`, the
\* shortest decimal text that parses back to the same number.
CSVLine(item) ==
    [date |-> ISODate(item.date), price |-> item.price, timestamp |-> item.timestamp,
     ema8 |-> ToFixed2(item.ema8), ema21 |-> ToFixed2(item.ema21),
     sma50 |-> ToFixed2(item.sma50), sma100 |-> ToFixed2(item.sma100),
     sma200 |-> ToFixed2(item.sma200), sma400 |-> ToFixed2(item.sma400),
     risk |-> ToFixed2(item.risk)]

NoFile == [exists |-> FALSE, lines |-> <<>>]

\* writeCSV(symbol, data): the file after the call
writeCSV(data) ==
    [exists |-> TRUE, lines |-> [k \in 1..Len(data) |-> CSVLine(data[k])]]

\* the object loadExistingCSV builds from one line
ParseLine(line) ==
    [date |-> Midnight(line.date), price |-> line.price, timestamp |-> line.timestamp,
     ema8 |-> ParseFixed2(line.ema8), ema21 |-> ParseFixed2(line.ema21),
     sma50 |-> ParseFixed2(line.sma50), sma100 |-> ParseFixed2(line.sma100),
     sma200 |-> ParseFixed2(line.sma200), sma400 |-> ParseFixed2(line.sma400),
     risk |-> ParseFixed2(line.risk)]

KeepsLine(item) == ~IsNaN(item.price) /\ RGt(item.price, Zero)

\* loadExistingCSV(symbol) on a file that exists
loadExistingCSV(file) ==
    SelectSeq([k \in 1..Len(file.lines) |-> ParseLine(file.lines[k])], KeepsLine)

\* Array.prototype.sort((a, b) => a.timestamp - b.timestamp), a stable sort,
\* as a merge sort.  Two sorted runs are merged by position: an element of
\* the left run follows the right-run elements that are smaller, an element
\* of the right run follows the left-run elements that are not greater.
MergeSortedRuns(left, right) ==
    IF left = <<>> THEN right
    ELSE IF right = <<>> THEN left
    ELSE IF left[Len(left)].timestamp <= right[1].timestamp THEN left \o right
    ELSE LET LeftPos(i) ==
                 i + Cardinality({j \in 1..Len(right) :
                                     right[j].timestamp < left[i].timestamp})
             RightPos(j) ==
                 j + Cardinality({i \in 1..Len(left) :
                                     left[i].timestamp <= right[j].timestamp})
         IN  [k \in 1..(Len(left) + Len(right)) |->
                 IF \E i \in 1..Len(left) : LeftPos(i) = k
                 THEN left[CHOOSE i \in 1..Len(left) : LeftPos(i) = k]
                 ELSE right[CHOOSE j \in 1..Len(right) : RightPos(j) = k]]
RECURSIVE SortBetween(_, _, _)
SortBetween(data, lo, hi) ==
    IF lo > hi THEN <<>>
    ELSE IF lo = hi THEN <<data[lo]>>
    ELSE LET mid == (lo + hi) \div 2
         IN  MergeSortedRuns(SortBetween(data, lo, mid), SortBetween(data, mid + 1, hi))
SortByTimestamp(data) == SortBetween(data, 1, Len(data))

\* "Recalculate all indicators": the six averages over all prices, with the
\* periods the scripts hard-code
Indicators(allPrices) ==
    [ema8 |-> calculateEMA(allPrices, 8 * 5),
     ema21 |-> calculateEMA(allPrices, 21 * 5),
     sma50 |-> calculateSMA(allPrices, 50 * 5),
     sma100 |-> calculateSMA(allPrices, 100 * 5),
     sma200 |-> calculateSMA(allPrices, 200 * 5),
     sma400 |-> calculateSMA(allPrices, 400 * 5)]
WithIndicators(points) ==
    LET allPrices == [k \in 1..Len(points) |-> points[k].price]
        ma == Indicators(allPrices)
    IN  [k \in 1..Len(points) |->
            [points[k] EXCEPT !.ema8 = ma.ema8[k], !.ema21 = ma.ema21[k],
                              !.sma50 = ma.sma50[k], !.sma100 = ma.sma100[k],
                              !.sma200 = ma.sma200[k], !.sma400 = ma.sma400[k]]]

\* a point of an API response as the scripts take it up: no averages yet, risk 5
NewDataPoint(item) ==
    [date |-> item.date, price |-> item.price, timestamp |-> item.date,
     ema8 |-> Zero, ema21 |-> Zero, sma50 |-> Zero, sma100 |-> Zero,
     sma200 |-> Zero, sma400 |-> Zero, risk |-> I(5)]

\* the scorer of a script: update-all-stock-csvs.js and generate-all-stock-csvs
\* carry a copy of the central calculateEMAFocusedRisk with
\* { ...defaults, ...riskThresholds }; the NVDA scripts carry the legacy one
ScriptScore(script, points, now) ==
    IF script = "all"
    THEN calculateEMAFocusedRisk(points, MergeConfig(DEFAULT_CONFIG, <<>>), now)
    ELSE legacyCalculateEMAFocusedRisk(points, now)

\* "Recalculate all indicators" and "Recalculate risk for all points": the
\* tail the generation and both branches of an update share
Recalculated(script, points, now) ==
    ScriptScore(script, WithIndicators(points), now)

\* generateStockCSV / generateCSV: the data written for an API response
generateCSV(script, data, now) ==
    Recalculated(script,
                 SortByTimestamp([k \in 1..Len(data) |-> NewDataPoint(data[k])]), now)

\* existingData.find(d => Math.abs(d.timestamp - latest) < 24 * 60 * 60 * 1000):
\* the index of the first such row, 0 if there is none
FindExistingLatest(existingData, latest) ==
    LET hits == {k \in 1..Len(existingData) :
                    Abs(existingData[k].timestamp - latest) < 4}
    IN  IF hits = {} THEN 0 ELSE CHOOSE k \in hits : \A j \in hits : k <= j

\* Math.abs(existingLatest.price - latestPrice) > 0.01
PriceChanged(old, new) == RGt(MathAbs(RSub(old, new)), Dec2(1))

\* the revision branch: the price of row `found` is overwritten; the rows to
\* recalculate, or <<>> if nothing is to be written
RevisedData(existingData, found, latestPrice) ==
    IF found # 0 /\ PriceChanged(existingData[found].price, latestPrice)
    THEN [existingData EXCEPT ![found].price = latestPrice]
    ELSE <<>>

\* the append branch: new points pushed, then sorted; the rows to recalculate
AppendedData(existingData, newDataPoints) ==
    SortByTimestamp(existingData \o
        [k \in 1..Len(newDataPoints) |-> NewDataPoint(newDataPoints[k])])

\* the timestamp of the first row of a non-empty array
FirstTimestamp(existingData) == existingData[1].timestamp

\* Math.max(...existingData.map(d => d.timestamp)) of a non-empty array
MaxTimestamp(existingData) ==
    LET k == CHOOSE i \in 1..Len(existingData) :
                 \A j \in 1..Len(existingData) :
                     existingData[j].timestamp <= existingData[i].timestamp
    IN  existingData[k].timestamp

\* updateStockCSV on an existing, non-empty file: the data written for the
\* response latestData (non-empty), or <<>> if nothing is written
updateStockCSV(existingData, latestData, now) ==
    LET lastDate == MaxTimestamp(existingData)
        IsNew(point) == point.date > lastDate
        newDataPoints == SelectSeq(latestData, IsNew)
        latestPoint == latestData[Len(latestData)]
        updated == IF newDataPoints = <<>>
                   THEN RevisedData(existingData,
                                    FindExistingLatest(existingData, latestPoint.date),
                                    latestPoint.price)
                   ELSE AppendedData(existingData, newDataPoints)
    IN  IF updated = <<>> THEN <<>> ELSE Recalculated("all", updated, now)

\* updateCSVIncremental on an existing, non-empty file: the data written for
\* the latest price and its date, or <<>> if nothing is written
updateCSVIncremental(existingData, latest, now) ==
    LET found == FindExistingLatest(existingData, latest.date)
        updated == IF found # 0
                   THEN RevisedData(existingData, found, latest.price)
                   ELSE AppendedData(existingData, <<latest>>)
    IN  IF updated = <<>> THEN <<>> ELSE Recalculated("nvda", updated, now)

-----------------------------------------------------------------------------
(* Browser clients: getCurrentRiskAndPrice of src/lib/stock-risk-utils.ts   *)
(* and fetchData of src/components/NVDARiskChart.tsx                        *)

\* x || fallback on numbers
OrElse(x, fallback) == IF Truthy(x) THEN x ELSE fallback

\* the object the clients build from one line of the file
ClientParseLine(line) ==
    [date |-> Midnight(line.date),
     price |-> OrElse(line.price, Zero),
     timestamp |-> line.timestamp,
     ema8 |-> OrElse(ParseFixed2(line.ema8), Zero),
     ema21 |-> OrElse(ParseFixed2(line.ema21), Zero),
     sma50 |-> OrElse(ParseFixed2(line.sma50), Zero),
     sma100 |-> OrElse(ParseFixed2(line.sma100), Zero),
     sma200 |-> OrElse(ParseFixed2(line.sma200), Zero),
     sma400 |-> OrElse(ParseFixed2(line.sma400), Zero),
     risk |-> OrElse(ParseFixed2(line.risk), I(5))]

ClientParse(lines) ==
    SelectSeq([k \in 1..Len(lines) |-> ClientParseLine(lines[k])], KeepsLine)

\* loadDataFromStockCSV: a fetch that fails, or is not ok, gives []
loadDataFromStockCSV(response) ==
    IF response.kind = "ok" THEN ClientParse(response.lines) ELSE <<>>

\* loadHistoricalDataFromCSV of the chart: only a fetch that fails gives [];
\* the body of any answer is parsed
loadHistoricalDataFromCSV(response) ==
    IF response.kind = "reject" THEN <<>> ELSE ClientParse(response.lines)

\* calculateRiskFromDeviations
calculateRiskFromDeviations(dev8EMA, dev21EMA, dev50SMA, dev100SMA, dev200SMA) ==
    Clamp(BaseRisk(dev8EMA, dev21EMA, dev50SMA, dev100SMA, dev200SMA,
                   [yellowTerritory |-> Dec2(15), elevatedTerritory |-> Dec2(8),
                    nearEMA |-> Dec2(-5)]))

\* level > 0 ? (price - level) / level : 0
DeviationOrZero(price, level) ==
    IF RGt(level, Zero) THEN Deviation(price, level) ELSE Zero

\* "Recalculate risk for updated price"
WithRecalculatedRisk(point) ==
    [point EXCEPT !.risk =
        Round2(calculateRiskFromDeviations(DeviationOrZero(point.price, point.ema8),
                                           DeviationOrZero(point.price, point.ema21),
                                           DeviationOrZero(point.price, point.sma50),
                                           DeviationOrZero(point.price, point.sma100),
                                           DeviationOrZero(point.price, point.sma200)))]

\* finalData of getCurrentRiskAndPrice for a latest result that arrived
FinalData(historicalData, latestResult) ==
    LET existingIndex == FindExistingLatest(historicalData, latestResult.dataDate)
        lastPoint == historicalData[Len(historicalData)]
    IN  IF existingIndex # 0
        THEN IF PriceChanged(historicalData[existingIndex].price, latestResult.currentPrice)
             THEN [historicalData EXCEPT ![existingIndex] =
                      WithRecalculatedRisk([@ EXCEPT !.price = latestResult.currentPrice])]
             ELSE historicalData
        ELSE Append(historicalData,
                    WithRecalculatedRisk([lastPoint EXCEPT
                                             !.date = latestResult.dataDate,
                                             !.price = latestResult.currentPrice,
                                             !.timestamp = latestResult.dataDate]))

Returned(risk, price, source) ==
    [thrown |-> FALSE, currentRisk |-> risk, currentPrice |-> price, dataSource |-> source]
Thrown == [thrown |-> TRUE, currentRisk |-> Zero, currentPrice |-> Zero, dataSource |-> ""]

\* catch (latestError) around the latest-price call: only a response that is
\* not ok is handled
CatchesNotOkOnly(latest) == latest.kind = "notOk"

\* catch (latestError) around the latest-price call: every failure is handled
CatchesLatestError(latest) == TRUE

\* getCurrentRiskAndPrice(symbol)
getCurrentRiskAndPrice(csv, latest, api) ==
    LET historicalData == loadDataFromStockCSV(csv)
    IN  IF Len(historicalData) > 0
        THEN IF latest.kind = "ok"
             THEN LET finalData == FinalData(historicalData, latest)
                      lastDataPoint == finalData[Len(finalData)]
                  IN  Returned(lastDataPoint.risk, lastDataPoint.price, "CSV + Latest API")
             ELSE IF CatchesLatestError(latest)
             THEN LET lastPoint == historicalData[Len(historicalData)]
                  IN  Returned(lastPoint.risk, lastPoint.price, "CSV Historical Data")
             ELSE Thrown
        ELSE IF api.kind = "ok"
             THEN Returned(api.currentRisk, api.currentPrice, "API")
             ELSE Thrown

\* processOptimizedDataset of the chart
processOptimizedDataset(data, now) ==
    IF data = <<>> THEN <<>>
    ELSE LET sortedData == SortByTimestamp(data)
             calculated == {k \in 1..Len(sortedData) :
                               /\ RGt(sortedData[k].ema8, Zero)
                               /\ RGt(sortedData[k].ema21, Zero)
                               /\ RGt(sortedData[k].risk, Zero)}
             lastCalculated == IF calculated = {} THEN 0
                               ELSE CHOOSE k \in calculated : \A j \in calculated : j <= k
             ma == Indicators([k \in 1..Len(sortedData) |-> sortedData[k].price])
             updatedData ==
                 [k \in 1..Len(sortedData) |->
                     IF k <= lastCalculated THEN sortedData[k]
                     ELSE [sortedData[k] EXCEPT
                              !.ema8 = ma.ema8[k], !.ema21 = ma.ema21[k],
                              !.sma50 = ma.sma50[k], !.sma100 = ma.sma100[k],
                              !.sma200 = ma.sma200[k], !.sma400 = ma.sma400[k],
                              !.risk = I(5)]]
         IN  IF lastCalculated = Len(sortedData) THEN sortedData
             ELSE legacyCalculateEMAFocusedRisk(updatedData, now)

\* combinedData of fetchData for a latest result that arrived
CombinedData(historicalData, latestResult) ==
    LET existingIndex == FindExistingLatest(historicalData, latestResult.dataDate)
    IN  IF existingIndex # 0
        THEN [historicalData EXCEPT ![existingIndex].price = latestResult.currentPrice]
        ELSE Append(historicalData,
                    NewDataPoint([date |-> latestResult.dataDate,
                                  price |-> latestResult.currentPrice]))

\* what fetchData leaves in the component's state
Shown(data, price, risk, source) ==
    [error |-> FALSE, data |-> data, currentPrice |-> price, currentRisk |-> risk,
     dataSource |-> source]
Failed ==
    [error |-> TRUE, data |-> <<>>, currentPrice |-> Zero, currentRisk |-> I(5),
     dataSource |-> <<>>]

\* processedData.length > 0 ? processedData[processedData.length - 1].risk : other
LastRiskOr(data, other) == IF Len(data) > 0 THEN data[Len(data)].risk ELSE other

\* fetchData of NVDARiskChart
fetchData(csv, latest, api, now) ==
    LET historicalData == loadHistoricalDataFromCSV(csv)
        lastPoint == historicalData[Len(historicalData)]
    IN  IF Len(historicalData) = 0
        THEN IF api.yahoo = "reject" \/ (api.yahoo = "notOk" /\ api.finnhub # "ok")
             THEN Failed
             ELSE LET dataWithNewRisk ==
                          legacyCalculateEMAFocusedRisk(api.result.data, now)
                  IN  Shown(dataWithNewRisk, api.result.currentPrice,
                            LastRiskOr(dataWithNewRisk, api.result.currentRisk),
                            <<api.result.source, " (Full Fallback)">>)
        ELSE IF latest.kind = "reject"
        THEN Shown(historicalData, lastPoint.price, lastPoint.risk,
                   <<"CSV Historical Only (Pre-calculated)">>)
        ELSE IF latest.kind = "badJson" THEN Failed
        ELSE IF latest.kind = "ok"
        THEN LET processedData ==
                     processOptimizedDataset(CombinedData(historicalData, latest), now)
             IN  Shown(processedData, latest.currentPrice, LastRiskOr(processedData, I(5)),
                       <<"CSV Historical (Pre-calculated) + ", latest.source>>)
        ELSE LET processedData == processOptimizedDataset(historicalData, now)
             IN  Shown(processedData, lastPoint.price, LastRiskOr(processedData, I(5)),
                       <<"CSV Historical Only (Pre-calculated)">>)

-----------------------------------------------------------------------------
(* A result that is not there yet, and one that is *)

NotRun == [done |-> FALSE, out |-> <<>>]
NoResponse == [kind |-> "none"]
Ran(v) == [done |-> TRUE, out |-> v]
NoConfig == [algorithm |-> "none"]

\* all sequences over S of length at most n
RECURSIVE SeqsUpTo(_, _)
SeqsUpTo(S, n) ==
    IF n = 0 THEN {<<>>}
    ELSE LET shorter == SeqsUpTo(S, n - 1)
         IN  shorter \cup {Append(s, x) : s \in {t \in shorter : Len(t) = n - 1}, x \in S}

-----------------------------------------------------------------------------
(* Idle values of the state a specification does not use *)

MAIdle ==
    /\ maData = <<>>
    /\ maPeriod = 0
    /\ smaOut = NotRun
    /\ emaOut = NotRun

RiskIdle ==
    /\ dataPoints = <<>>
    /\ config = NoConfig
    /\ currentDate = 0
    /\ scored = NotRun
    /\ rescored = NotRun
    /\ legacyScored = NotRun
    /\ scoredLater = NotRun

SvcIdle ==
    /\ priceData = <<>>
    /\ stockConfig = NoConfig
    /\ processed = NotRun

ClientIdle ==
    /\ clientCsv = NoResponse
    /\ clientLatest = NoResponse
    /\ fetchApi = NoResponse
    /\ chartApi = NoResponse
    /\ fetched = NotRun
    /\ charted = NotRun

CsvIdle ==
    /\ csvScenario = NoConfig
    /\ csvFile = NoFile
    /\ csvWritten = <<>>
    /\ csvLoaded = NotRun

ChartIdle ==
    /\ chartSymbol = ""
    /\ chartRequests = <<>>
    /\ chartState = NoResponse

BatchIdle ==
    /\ batchOutcomes = <<>>
    /\ batchResults = <<>>
    /\ stockFiles = <<>>
    /\ legacyFile = NoFile
    /\ exitCode = NoResponse

-----------------------------------------------------------------------------
(* Specification of the moving-average library: any number[] and any      *)
(* period are handed to calculateSMA and calculateEMA.                     *)

Prices == {I(p) : p \in PriceSet}

MAInit ==
    /\ maData \in SeqsUpTo(Prices, MaxLen)
    /\ maPeriod \in (-MaxNegPeriod)..MaxPeriod
    /\ smaOut = NotRun
    /\ emaOut = NotRun
    /\ RiskIdle
    /\ ChartIdle
    /\ BatchIdle
    /\ SvcIdle
    /\ CsvIdle
    /\ ClientIdle

RunSMA ==
    /\ smaOut = NotRun
    /\ smaOut' = Ran(calculateSMA(maData, maPeriod))
    /\ UNCHANGED <<maData, maPeriod, emaOut, riskVars, svcVars, csvVars, clientVars, chartVars, batchVars>>

RunEMA ==
    /\ emaOut = NotRun
    /\ emaOut' = Ran(calculateEMA(maData, maPeriod))
    /\ UNCHANGED <<maData, maPeriod, smaOut, riskVars, svcVars, csvVars, clientVars, chartVars, batchVars>>

MANext == RunSMA \/ RunEMA

MASpec == MAInit /\ [][MANext]_vars

\* sum of data[lo..hi] (1-based, inclusive), added from the right
RECURSIVE SumRange(_, _, _)
SumRange(data, lo, hi) ==
    IF lo > hi THEN Zero ELSE RAdd(data[lo], SumRange(data, lo + 1, hi))

\* C7: for a window w >= 1 calculateSMA returns as many elements as it was
\* given; element i is 0 for i < w-1 and the arithmetic mean of
\* prices[i-w+1..i] for i >= w-1.
C7_SMASentinelAndMean ==
    (smaOut.done /\ maPeriod >= 1) =>
        /\ Len(smaOut.out) = Len(maData)
        /\ \A k \in 1..Len(maData) :
              IF k - 1 < maPeriod - 1
              THEN smaOut.out[k] = Zero
              ELSE /\ IsFinite(smaOut.out[k])
                   /\ RMul(smaOut.out[k], I(maPeriod))
                        = SumRange(maData, k - maPeriod + 1, k)

\* C7 witness: a window of 2 over three prices, the last two different:
\* one sentinel, then two means.
C7_Witness ==
    /\ smaOut.done
    /\ maPeriod = 2
    /\ Len(maData) = 3
    /\ maData[2] # maData[3]
    /\ smaOut.out[1] = Zero
    /\ smaOut.out[3] # Zero

\* C8: with window <= 0 or window > len(prices) calculateSMA returns as many
\* elements as it was given, every one of them 0 (never NaN).
C8_SMAAllZeroOutsideRange ==
    (smaOut.done /\ (maPeriod <= 0 \/ maPeriod > Len(maData))) =>
        /\ Len(smaOut.out) = Len(maData)
        /\ \A k \in 1..Len(maData) : smaOut.out[k] = Zero

\* C9: for a non-empty series and a window w >= 1 calculateEMA returns as
\* many elements as it was given, output[0] = prices[0], and for i > 0
\* output[i] = prices[i]*m + output[i-1]*(1-m) with m = 2/(w+1); the EMA of a
\* constant series is that constant at every index.
C9_EMASeedAndRecurrence ==
    (emaOut.done /\ maPeriod >= 1 /\ maData # <<>>) =>
        LET m == Norm(2, maPeriod + 1)
            out == emaOut.out
        IN  /\ Len(out) = Len(maData)
            /\ out[1] = maData[1]
            /\ \A k \in 2..Len(maData) :
                  out[k] = RAdd(RMul(maData[k], m), RMul(out[k - 1], RSub(I(1), m)))
            /\ (\A k \in 1..Len(maData) : maData[k] = maData[1])
                  => \A k \in 1..Len(maData) : out[k] = maData[1]

\* C9 witness: a window of 3 (m = 1/2) over three prices that are not all
\* equal, so the recurrence has run twice on changing data.
C9_Witness ==
    /\ emaOut.done
    /\ maPeriod = 3
    /\ Len(maData) = 3
    /\ maData[1] # maData[2]
    /\ maData[2] # maData[3]
    /\ emaOut.out[3] # maData[3]

-----------------------------------------------------------------------------
(* Specification of the risk calculator: calculateRisk is handed a series  *)
(* and a config, and then its own output again.  A series is a run of      *)
(* points without history (sma50 = 0), as every real series starts, one    *)
(* day apart, followed by up to MaxTail points of the kinds below.         *)

\* <<price, ema8, ema21, sma50, sma100, sma200, risk>> of a point
NoHistory == <<10, 10, 10, 0, 0, 0, 5>>
PointKinds ==
    { NoHistory,
      <<12, 10, 0, 10, 10, 10, 8>>,     \* ema21 missing
      <<12, 0, 10, 10, 10, 10, 2>>,     \* ema8 missing
      <<12, 10, 10, 10, 10, 10, 5>>,    \* 20% above ema8
      <<10, 9, 10, 10, 10, 10, 7>>,     \* 11% above ema8
      <<10, 10, 10, 9, 0, 0, 5>>,       \* at ema8, sma100 not there yet
      <<10, 12, 10, 10, 10, 9, 5>>,     \* below ema8, at ema21, above sma200
      <<8, 10, 10, 12, 12, 12, 2>> }    \* far below every average

\* a point of a series whose price never moved
Flat == <<10, 10, 10, 10, 10, 10, 5>>

\* points below ema8 by more than 5%, with ema21 below, at and above the price
LowKinds ==
    { <<10, 12, 8, 10, 10, 10, 5>>,     \* 25% above ema21
      <<10, 12, 10, 10, 10, 9, 5>>,     \* at ema21
      <<20, 24, 21, 20, 20, 20, 5>> }   \* 4.8% below ema21

\* a series at 50 without history yet, then a day 18% up followed by flat days
CalmHistory == <<50, 50, 50, 0, 0, 0, 5>>
RisingKinds ==
    { <<59, 50, 50, 50, 50, 50, 5>>,
      <<59, 59, 59, 59, 59, 59, 5>> }

\* points at and above the yellow territory of the default thresholds: 15%,
\* 16%, 18%, 22.5%, 30% and 40% above ema8
HighKinds ==
    { <<23, 20, 20, 20, 20, 20, 5>>,
      <<58, 50, 50, 50, 50, 50, 5>>,
      <<59, 50, 50, 50, 50, 50, 5>>,
      <<49, 40, 40, 40, 40, 40, 5>>,
      <<13, 10, 10, 10, 10, 10, 5>>,
      <<7, 5, 5, 5, 5, 5, 5>> }

Point(kind, day) ==
    [date |-> Midnight(day), timestamp |-> Midnight(day),
     price |-> I(kind[1]), ema8 |-> I(kind[2]), ema21 |-> I(kind[3]),
     sma50 |-> I(kind[4]), sma100 |-> I(kind[5]), sma200 |-> I(kind[6]),
     sma400 |-> Zero, risk |-> I(kind[7])]

Series(prefix, prefixLen, tail) ==
    [k \in 1..(prefixLen + Len(tail)) |->
        IF k <= prefixLen THEN Point(prefix, k - 1)
        ELSE Point(tail[k - prefixLen], k - 1)]

\* riskConfig of STOCK_CONFIGS.VOO
VOOConfig ==
    [algorithm |-> "ema-focused",
     riskThresholds |-> [yellowTerritory |-> Dec2(10),
                         elevatedTerritory |-> Dec2(5),
                         nearEMA |-> Dec2(-3)]]

\* days between the last point and the current date
Ages == {0, 730, 1500}

\* the kinds that follow a run long enough for the volatility adjustment
VolatileKinds ==
    { NoHistory,
      Flat,
      <<12, 10, 10, 10, 10, 10, 5>>,
      <<10, 10, 10, 9, 0, 0, 5>>,
      <<8, 10, 10, 12, 12, 12, 2>> }

\* the kinds that follow the warm-up of the enhanced algorithm
EnhancedKinds ==
    { <<12, 10, 10, 10, 10, 10, 5>>,
      <<10, 10, 10, 9, 0, 0, 5>>,
      <<8, 10, 10, 12, 12, 12, 2>> }

\* the calls that are made: config, length of the run without history, age,
\* and the points that follow the run
Scenarios ==
    {[config |-> [algorithm |-> "ema-focused"], prefix |-> NoHistory, prefixLen |-> 0,
      age |-> a, kinds |-> PointKinds, maxTail |-> MaxTail] : a \in Ages}
    \cup
    {[config |-> [algorithm |-> "ema-focused"], prefix |-> NoHistory,
      prefixLen |-> VolHistory + 1,
      age |-> a, kinds |-> VolatileKinds, maxTail |-> MaxTail] : a \in Ages}
    \cup
    {[config |-> c, prefix |-> NoHistory, prefixLen |-> 0, age |-> 0,
      kinds |-> PointKinds, maxTail |-> MaxTail] :
        c \in {VOOConfig, [algorithm |-> "percentile"], [algorithm |-> "simple"]}}
    \cup
    {[config |-> [algorithm |-> "enhanced"], prefix |-> NoHistory,
      prefixLen |-> EnhancedWarmup, age |-> 0,
      kinds |-> EnhancedKinds, maxTail |-> MaxEnhancedTail]}
    \cup
    {[config |-> [algorithm |-> "ema-focused"], prefix |-> NoHistory, prefixLen |-> 0,
      age |-> 0, kinds |-> LowKinds, maxTail |-> MaxTail]}
    \cup
    {[config |-> [algorithm |-> "ema-focused"], prefix |-> CalmHistory,
      prefixLen |-> VolHistory + 1,
      age |-> 0, kinds |-> RisingKinds, maxTail |-> MaxTail]}
    \cup
    {[config |-> c, prefix |-> NoHistory, prefixLen |-> 0, age |-> a,
      kinds |-> HighKinds, maxTail |-> MaxTail] :
        c \in {[algorithm |-> "ema-focused"], VOOConfig}, a \in {0, 1500}}

RiskInit ==
    /\ \E sc \in Scenarios :
        \E tail \in SeqsUpTo(sc.kinds, sc.maxTail) :
          /\ tail # <<>>
          /\ dataPoints = Series(sc.prefix, sc.prefixLen, tail)
          /\ config = sc.config
          /\ currentDate = Midnight(sc.prefixLen + Len(tail) - 1 + sc.age)
    /\ scored = NotRun
    /\ rescored = NotRun
    /\ legacyScored = NotRun
    /\ scoredLater = NotRun
    /\ MAIdle
    /\ ChartIdle
    /\ BatchIdle
    /\ SvcIdle
    /\ CsvIdle
    /\ ClientIdle

\* calculateRisk(dataPoints, config)
Score ==
    /\ ~scored.done
    /\ scored' = Ran(calculateRisk(dataPoints, config, currentDate))
    /\ UNCHANGED <<dataPoints, config, currentDate, rescored, legacyScored, scoredLater, maVars, svcVars, csvVars, clientVars, chartVars, batchVars>>

\* calculateRisk(scored, config): the output is scored again, unchanged, at
\* the same current date
Rescore ==
    /\ scored.done
    /\ ~rescored.done
    /\ rescored' = Ran(calculateRisk(scored.out, config, currentDate))
    /\ UNCHANGED <<dataPoints, config, currentDate, scored, legacyScored, scoredLater, maVars, svcVars, csvVars, clientVars, chartVars, batchVars>>

\* calculateEMAFocusedRisk(dataPoints) of scripts/generate-csv.js on the
\* same points at the same current date
ScoreLegacy ==
    /\ ~legacyScored.done
    /\ legacyScored' = Ran(legacyCalculateEMAFocusedRisk(dataPoints, currentDate))
    /\ UNCHANGED <<dataPoints, config, currentDate, scored, rescored, scoredLater, maVars, svcVars, csvVars, clientVars, chartVars, batchVars>>

RiskNext == Score \/ Rescore \/ ScoreLegacy

RiskSpec == RiskInit /\ [][RiskNext]_vars

\* the run dispatches to calculateEMAFocusedRisk
EmaFocusedRun ==
    MergeConfig(DEFAULT_CONFIG, config).algorithm \notin {"enhanced", "simple"}
\* the thresholds of the run
RunThresholds == MergeConfig(DEFAULT_CONFIG, config).riskThresholds
\* the point, written out, has sma50 = 0 or ema8 = 0 or ema21 = 0
HasMissingAverage(point) ==
    point.sma50 = Zero \/ point.ema8 = Zero \/ point.ema21 = Zero
\* the series with every risk field erased
WithoutRisk(points) == [k \in 1..Len(points) |-> [points[k] EXCEPT !.risk = Zero]]
\* the inputs are well formed: positive prices, non-negative averages,
\* risk fields in [1, 10]
WellFormed(points) ==
    \A k \in 1..Len(points) :
        /\ RGt(points[k].price, Zero)
        /\ \A f \in {"ema8", "ema21", "sma50", "sma100", "sma200", "sma400"} :
              RGe(points[k][f], Zero)
        /\ RGe(points[k].risk, I(1))
        /\ RLe(points[k].risk, I(10))

\* C1: for every algorithm and every well-formed input series, every point
\* returned by calculateRisk has 1 <= risk <= 10.
C1_RiskWithinBounds ==
    (scored.done /\ WellFormed(dataPoints)) =>
        \A k \in 1..Len(scored.out) :
            /\ RGe(scored.out[k].risk, I(1))
            /\ RLe(scored.out[k].risk, I(10))

\* C2: in ema-focused scoring every unguarded point i with 0 < i < n-1 is
\* emitted with round2(0.8 * c_i + 0.2 * r_prev), c_i its clamped risk before
\* smoothing and r_prev the risk the same run emitted for point i-1.
C2_SmoothingUsesEmittedRisk ==
    (scored.done /\ EmaFocusedRun) =>
        \A k \in 2..(Len(dataPoints) - 1) :
            ~HasMissingAverage(dataPoints[k]) =>
                scored.out[k].risk =
                    Round2(RAdd(RMul(ClampedRisk(dataPoints, k - 1, RunThresholds,
                                                 currentDate), Dec2(80)),
                                RMul(scored.out[k - 1].risk, Dec2(20))))

\* C3: scoring the output of a scoring run again, with the same config at the
\* same current date, gives every point the risk of the first run.
C3_RescoreIdempotent ==
    rescored.done =>
        \A k \in 1..Len(scored.out) : rescored.out[k].risk = scored.out[k].risk

\* C4: in ema-focused scoring a point with sma50 = 0 or ema8 = 0 or ema21 = 0
\* is emitted with risk exactly 5, whatever its price, its date, the current
\* date, the thresholds and its neighbours are.
C4_GuardedRiskIsFive ==
    /\ (scored.done /\ EmaFocusedRun) =>
          \A k \in 1..Len(dataPoints) :
              HasMissingAverage(dataPoints[k]) => scored.out[k].risk = I(5)
    /\ (rescored.done /\ EmaFocusedRun) =>
          \A k \in 1..Len(scored.out) :
              HasMissingAverage(scored.out[k]) => rescored.out[k].risk = I(5)

\* C4 witness: a point that lacks only ema21 sits between two scored points,
\* carries a risk other than 5 on input, and is emitted with 5.
C4_Witness ==
    /\ scored.done
    /\ EmaFocusedRun
    /\ \E k \in 2..(Len(dataPoints) - 1) :
          /\ dataPoints[k].ema21 = Zero
          /\ dataPoints[k].sma50 # Zero
          /\ dataPoints[k].ema8 # Zero
          /\ dataPoints[k].risk # I(5)
          /\ ~HasMissingAverage(dataPoints[k - 1])
          /\ ~HasMissingAverage(dataPoints[k + 1])
          /\ scored.out[k - 1].risk # I(5)
          /\ scored.out[k].risk = I(5)

\* C5: in ema-focused scoring the first and the last point of a series (of
\* any length, 1 and 2 included), when unguarded, are emitted with round2 of
\* their own clamped risk before smoothing, which no risk field of the input
\* enters.
C5_EndsNotSmoothed ==
    (scored.done /\ EmaFocusedRun) =>
        \A k \in {1, Len(dataPoints)} :
            ~HasMissingAverage(dataPoints[k]) =>
                scored.out[k].risk =
                    Round2(ClampedRisk(WithoutRisk(dataPoints), k - 1, RunThresholds,
                                       currentDate))

\* C5 witness: the last of at least three points is unguarded and follows an
\* unguarded point whose risk, on input and as emitted, differs from the one
\* the last point gets.
C5_Witness ==
    /\ scored.done
    /\ EmaFocusedRun
    /\ Len(dataPoints) >= 3
    /\ LET n == Len(dataPoints)
       IN  /\ ~HasMissingAverage(dataPoints[n])
           /\ ~HasMissingAverage(dataPoints[n - 1])
           /\ ~HasMissingAverage(dataPoints[1])
           /\ dataPoints[n - 1].risk # scored.out[n].risk
           /\ scored.out[n - 1].risk # scored.out[n].risk
           /\ scored.out[n].risk # I(5)

\* every average a full scoring needs is there
EnoughHistory(point) ==
    /\ point.ema8 # Zero
    /\ point.ema21 # Zero
    /\ point.sma50 # Zero
    /\ point.sma100 # Zero
    /\ point.sma200 # Zero

\* the price never moves, so every average that exists equals the price
ConstantSeries(points) ==
    \A k \in 1..Len(points) :
        /\ points[k].price = points[1].price
        /\ \A f \in {"ema8", "ema21", "sma50", "sma100", "sma200"} :
              points[k][f] \in {Zero, points[k].price}

\* C14: in a series whose price is the same at every point, every point that
\* has all of ema8, ema21, sma50, sma100, sma200 is scored about 3.0 (here:
\* between 2 and 4), and all these points, the last one included, get the
\* same risk.
C14_ConstantPriceStable ==
    (scored.done /\ EmaFocusedRun /\ ConstantSeries(dataPoints)) =>
        \A k \in 1..Len(dataPoints) :
            EnoughHistory(dataPoints[k]) =>
                /\ RGe(scored.out[k].risk, I(2))
                /\ RLe(scored.out[k].risk, I(4))
                /\ \A j \in 1..Len(dataPoints) :
                       EnoughHistory(dataPoints[j]) =>
                           scored.out[j].risk = scored.out[k].risk

\* the base risk STEP 1 gives a point
BaseRiskOf(point, thresholds) ==
    BaseRisk(Deviation(point.price, point.ema8), Deviation(point.price, point.ema21),
             Deviation(point.price, point.sma50), Deviation(point.price, point.sma100),
             Deviation(point.price, point.sma200), thresholds)

\* C17: for a scored point whose deviation from ema8 is below nearEMA and
\* whose deviation from ema21 is at least -0.08, the base risk is in [3, 4)
\* when the deviation from ema21 is negative and in [4, 5] otherwise.
C17_LowTerritoryBaseRisk ==
    (scored.done /\ EmaFocusedRun) =>
        \A k \in 1..Len(dataPoints) :
            LET point == dataPoints[k]
                dev21EMA == Deviation(point.price, point.ema21)
                base == BaseRiskOf(point, RunThresholds)
            IN  (/\ ~HasMissingAverage(point)
                 /\ RLt(Deviation(point.price, point.ema8), RunThresholds.nearEMA)
                 /\ RGe(dev21EMA, Dec2(-8))) =>
                    IF RLt(dev21EMA, Zero)
                    THEN RGe(base, I(3)) /\ RLt(base, I(4))
                    ELSE RGe(base, I(4)) /\ RLe(base, I(5))

\* the population variance of the returns of points[index-20 .. index]: the
\* mean of the squared deviations from the mean return
ReturnVariance(points, index) ==
    LET recent == JsSlice(points, MaxInt(0, index - 20), index + 1)
        returns == PriceChanges([k \in 1..Len(recent) |-> recent[k].price])
        mean == RDiv(Sum(returns), I(Len(returns)))
        squares == [k \in 1..Len(returns) |->
                       RMul(RSub(returns[k], mean), RSub(returns[k], mean))]
    IN  RDiv(Sum(squares), I(Len(returns)))

\* the volatility adjustment with the standard deviation of the returns
\* (compared by its square)
StdDevAdjust(risk, points, index, modernWeight) ==
    IF RGt(modernWeight, Dec2(30)) /\ index > 50 THEN
        LET variance == ReturnVariance(points, index)
        IN  IF RGt(variance, RMul(Dec2(6), Dec2(6))) THEN RSub(risk, Dec2(20))
            ELSE IF RGt(variance, RMul(Dec2(4), Dec2(4))) THEN RSub(risk, Dec2(10))
            ELSE risk
    ELSE risk

\* the clamped risk of a point when STEP 3 is StdDevAdjust
StdDevClampedRisk(points, index, thresholds, now) ==
    LET point == At(points, index)
        modernWeight == ModernWeight(point, now)
        dev8EMA == Deviation(point.price, point.ema8)
        dev21EMA == Deviation(point.price, point.ema21)
        dev50SMA == Deviation(point.price, point.sma50)
        timed == TimeAdjust(BaseRiskOf(point, thresholds), modernWeight)
        calmed == StdDevAdjust(timed, points, index, modernWeight)
    IN  Clamp(TrendAdjust(calmed, TrendAlignment(dev8EMA, dev21EMA, dev50SMA)))

\* C18: the volatility adjustment of a scored point with modernWeight > 0.3
\* and index > 50 is taken on the population standard deviation of the 20
\* returns of prices[i-20..i] (0.2 off above 0.06, 0.1 off above 0.04), and
\* there is none for the other points: every point is emitted with the risk
\* that this adjustment leads to.
C18_VolatilityIsStdDev ==
    (scored.done /\ EmaFocusedRun) =>
        \A k \in 1..Len(dataPoints) :
            ~HasMissingAverage(dataPoints[k]) =>
                scored.out[k].risk =
                    Round2(Smooth(StdDevClampedRisk(dataPoints, k - 1, RunThresholds,
                                                    currentDate),
                                  dataPoints, k - 1))

\* C19: with the default thresholds, the scorer of scripts/generate-csv.js
\* gives every point the risk the central calculateEMAFocusedRisk gives it,
\* on the same points at the same current date.
C19_LegacyAgrees ==
    (scored.done /\ legacyScored.done /\ config = [algorithm |-> "ema-focused"]) =>
        \A k \in 1..Len(dataPoints) :
            legacyScored.out[k].risk = scored.out[k].risk

\* STEP 2-4 and the final bounds applied to a base risk
AfterBase(base, points, index, now) ==
    LET point == At(points, index)
        modernWeight == ModernWeight(point, now)
        timed == TimeAdjust(base, modernWeight)
        calmed == VolatilityAdjust(timed, points, index, modernWeight)
    IN  Clamp(TrendAdjust(calmed, TrendAlignment(Deviation(point.price, point.ema8),
                                                 Deviation(point.price, point.ema21),
                                                 Deviation(point.price, point.sma50))))

\* 8.0, 8.5, 9.0 and 9.5 by how far the deviation is past the threshold e
HighBand(dev, e) ==
    IF RGe(dev, RMul(e, I(2))) THEN Dec2(950)
    ELSE IF RGe(dev, RMul(e, Dec2(150))) THEN Dec2(900)
    ELSE IF RGe(dev, RMul(e, Dec2(120))) THEN Dec2(850)
    ELSE Dec2(800)

\* C23: for a scored point whose deviation from ema8 is at least the yellow
\* territory threshold e, the base risk is 8.0 below 1.2e, 8.5 from 1.2e,
\* 9.0 from 1.5e and 9.5 from 2e, and the risk returned is that base risk
\* taken through the adjustments, the bounds, the smoothing and the rounding;
\* with e = 0.15 a price of ema8 * 1.16 has base risk 8.0.
C23_HighTerritoryBands ==
    (scored.done /\ EmaFocusedRun) =>
        \A k \in 1..Len(dataPoints) :
            LET point == dataPoints[k]
                e == RunThresholds.yellowTerritory
                dev == Deviation(point.price, point.ema8)
            IN  (~HasMissingAverage(point) /\ RGe(dev, e)) =>
                    /\ BaseRiskOf(point, RunThresholds) = HighBand(dev, e)
                    /\ scored.out[k].risk =
                           Round2(Smooth(AfterBase(HighBand(dev, e), dataPoints, k - 1,
                                                   currentDate),
                                         dataPoints, k - 1))
                    /\ (e = Dec2(15) /\ dev = Dec2(16)) =>
                           BaseRiskOf(point, RunThresholds) = I(8)

\* C23 witness: under the VOO thresholds (e = 0.10) a point 16% above ema8,
\* followed by one 22.5% above, was scored; their base risks are 9.0 and 9.5,
\* and the first one, old enough for no time adjustment, is returned as 9.15
C23_Witness ==
    /\ scored.done
    /\ config = VOOConfig
    /\ Len(dataPoints) = 2
    /\ currentDate = Midnight(1501)
    /\ Deviation(dataPoints[1].price, dataPoints[1].ema8) = Dec2(16)
    /\ BaseRiskOf(dataPoints[1], RunThresholds) = I(9)
    /\ BaseRiskOf(dataPoints[2], RunThresholds) = Dec2(950)
    /\ scored.out[1].risk = Dec2(915)

\* the adjustment of STEP 4 as the deviations decide it: +0.15 when all three
\* are above zero, -0.15 when none is, nothing otherwise
TrendBonus(dev8EMA, dev21EMA, dev50SMA) ==
    IF RGt(dev8EMA, Zero) /\ RGt(dev21EMA, Zero) /\ RGt(dev50SMA, Zero) THEN Dec2(15)
    ELSE IF ~RGt(dev8EMA, Zero) /\ ~RGt(dev21EMA, Zero) /\ ~RGt(dev50SMA, Zero)
    THEN Dec2(-15)
    ELSE Zero

\* the risk of a point after STEP 1-3
BeforeTrend(points, index, thresholds, now) ==
    LET point == At(points, index)
        modernWeight == ModernWeight(point, now)
    IN  VolatilityAdjust(TimeAdjust(BaseRiskOf(point, thresholds), modernWeight),
                         points, index, modernWeight)

\* C24: the scorer adds 0.15 to the risk of a point exactly when its
\* deviations from ema8, ema21 and sma50 are all above zero, subtracts 0.15
\* exactly when none of them is (a deviation of 0 counts as downward), and
\* adds nothing when they disagree.
C24_TrendAlignment ==
    (scored.done /\ EmaFocusedRun) =>
        \A k \in 1..Len(dataPoints) :
            LET point == dataPoints[k]
                dev8EMA == Deviation(point.price, point.ema8)
                dev21EMA == Deviation(point.price, point.ema21)
                dev50SMA == Deviation(point.price, point.sma50)
                before == BeforeTrend(dataPoints, k - 1, RunThresholds, currentDate)
            IN  ~HasMissingAverage(point) =>
                    scored.out[k].risk =
                        Round2(Smooth(Clamp(RAdd(before,
                                                 TrendBonus(dev8EMA, dev21EMA, dev50SMA))),
                                      dataPoints, k - 1))

\* C24 witness: a series of a point below ema8 and exactly at ema21 and
\* sma50, one above all three and one above ema8 only was scored
C24_Witness ==
    /\ scored.done
    /\ EmaFocusedRun
    /\ \E i, j, k \in 1..Len(dataPoints) :
          /\ ~HasMissingAverage(dataPoints[i])
          /\ RGt(dataPoints[i].ema8, dataPoints[i].price)
          /\ dataPoints[i].price = dataPoints[i].ema21
          /\ dataPoints[i].price = dataPoints[i].sma50
          /\ ~HasMissingAverage(dataPoints[j])
          /\ RGt(dataPoints[j].price, dataPoints[j].ema8)
          /\ RGt(dataPoints[j].price, dataPoints[j].ema21)
          /\ RGt(dataPoints[j].price, dataPoints[j].sma50)
          /\ ~HasMissingAverage(dataPoints[k])
          /\ RGt(dataPoints[k].price, dataPoints[k].ema8)
          /\ dataPoints[k].price = dataPoints[k].ema21

-----------------------------------------------------------------------------
(* Specification of the analysis service: the data provider returns up to  *)
(* MaxLen price points with distinct timestamps, in any order, and         *)
(* processStockData turns them into data points.                           *)

\* STOCK_CONFIGS.NVDA, STOCK_CONFIGS.VOO, the fallback of analyzeStock for a
\* symbol that is not configured, a stock configured with an algorithm tag
\* that calculateRisk does not know, and a stock configured with periods of
\* its own, short enough for the averages to exist within MaxLen points
StockConfigs ==
    { [symbol |-> "NVDA", name |-> "NVIDIA Corporation",
       riskConfig |-> [algorithm |-> "ema-focused"]],
      [symbol |-> "VOO", name |-> "Vanguard S&P 500 ETF", riskConfig |-> VOOConfig],
      FallbackConfig("XYZ"),
      [symbol |-> "TAG", name |-> "Unknown algorithm",
       riskConfig |-> [algorithm |-> "percentile"]],
      [symbol |-> "SHRT", name |-> "Short history",
       riskConfig |-> [algorithm |-> "ema-focused",
                       emaPeriods |-> [short |-> 2, medium |-> 3],
                       smaPeriods |-> [short |-> 1, medium |-> 2,
                                       long |-> 2, extraLong |-> 3]]] }

PricePoint(t, p) == [date |-> t, timestamp |-> t, price |-> p]

\* the timestamps of a series are pairwise different
DistinctTimestamps(data) ==
    \A j, k \in 1..Len(data) : j # k => data[j].timestamp # data[k].timestamp

\* what the provider returns for a young symbol: a few points in any order
YoungSeries ==
    {d \in SeqsUpTo({PricePoint(t, p) : t \in 1..MaxLen, p \in Prices}, MaxLen) :
        d # <<>> /\ DistinctTimestamps(d)}

\* what it returns for a symbol with HistoryLen - 1 quiet days behind it: the
\* history and up to MaxLen - 1 days that follow, in order
SeasonedSeries ==
    {[k \in 1..(HistoryLen - 1 + Len(tail)) |->
         PricePoint(k, IF k < HistoryLen THEN I(10) ELSE tail[k - HistoryLen + 1])] :
        tail \in SeqsUpTo(Prices, MaxLen - 1) \ {<<>>}}

SvcInit ==
    /\ priceData \in YoungSeries \cup SeasonedSeries
    /\ stockConfig \in StockConfigs
    /\ currentDate = HistoryLen + MaxLen
    /\ processed = NotRun
    /\ dataPoints = <<>>
    /\ config = NoConfig
    /\ scored = NotRun
    /\ rescored = NotRun
    /\ legacyScored = NotRun
    /\ scoredLater = NotRun
    /\ MAIdle
    /\ ChartIdle
    /\ BatchIdle
    /\ CsvIdle
    /\ ClientIdle

\* processStockData(priceData, stockConfig)
ProcessStockData ==
    /\ ~processed.done
    /\ processed' = Ran(processStockData(priceData, stockConfig, currentDate))
    /\ UNCHANGED <<priceData, stockConfig, maVars, riskVars, csvVars, clientVars, chartVars, batchVars>>

SvcNext == ProcessStockData

SvcSpec == SvcInit /\ [][SvcNext]_vars

\* the points of data in ascending timestamp order
Ascending(data) == SortByTimestamp(data)

\* C10: for price points given in any order, the list processStockData
\* returns is in ascending timestamp order and its moving averages are those
\* of the prices taken in that order.
C10_ProcessedAscending ==
    processed.done =>
        LET out == processed.out
            ascending == Ascending(priceData)
            prices == [k \in 1..Len(priceData) |-> ascending[k].price]
            short == IF "emaPeriods" \in DOMAIN stockConfig.riskConfig
                     THEN stockConfig.riskConfig.emaPeriods.short ELSE 8 * 5
        IN  /\ Len(out) = Len(priceData)
            /\ \A k \in 1..(Len(out) - 1) : out[k].timestamp < out[k + 1].timestamp
            /\ \A k \in 1..Len(out) : out[k].ema8 = calculateEMA(prices, short)[k]

\* the data points of the prices with the averages of the windows 40 and
\* 105, 250, 500, 1000 and 2000, scored by the ema-focused algorithm with the
\* thresholds 0.15, 0.08 and -0.05
ScoredWithDefaults(data, now) ==
    LET prices == [k \in 1..Len(data) |-> data[k].price]
        ema8 == calculateEMA(prices, 40)
        ema21 == calculateEMA(prices, 105)
        sma50 == calculateSMA(prices, 250)
        sma100 == calculateSMA(prices, 500)
        sma200 == calculateSMA(prices, 1000)
        sma400 == calculateSMA(prices, 2000)
        points == [k \in 1..Len(data) |->
                     [date |-> data[k].date, price |-> data[k].price,
                      timestamp |-> data[k].timestamp,
                      ema8 |-> ema8[k], ema21 |-> ema21[k],
                      sma50 |-> sma50[k], sma100 |-> sma100[k],
                      sma200 |-> sma200[k], sma400 |-> sma400[k],
                      risk |-> I(5)]]
    IN  calculateEMAFocusedRisk(points,
            [riskThresholds |-> [yellowTerritory |-> Dec2(15),
                                 elevatedTerritory |-> Dec2(8),
                                 nearEMA |-> Dec2(-5)]], now)

\* the symbol is not in STOCK_CONFIGS, or its algorithm tag is unknown
FallsBack ==
    \/ stockConfig = FallbackConfig(stockConfig.symbol)
    \/ stockConfig.riskConfig = [algorithm |-> "percentile"]

\* C15: for a symbol that is not configured, and for a config with an
\* unknown algorithm tag, the points returned are those of the ema-focused
\* algorithm with the default windows (40, 105; 250, 500, 1000, 2000) and the
\* default thresholds (0.15, 0.08, -0.05).
C15_FallbackIsDefault ==
    (processed.done /\ FallsBack) =>
        processed.out = ScoredWithDefaults(priceData, currentDate)

\* C15 witness: a symbol that is not configured was scored, with a point
\* that has its averages and a risk the thresholds decide
C15_Witness ==
    /\ processed.done
    /\ stockConfig = FallbackConfig("XYZ")
    /\ \E k \in 1..Len(priceData) :
          /\ ~HasMissingAverage(processed.out[k])
          /\ processed.out[k].risk # I(5)
          /\ processed.out[k].ema8 # processed.out[k].price
          /\ processed.out[k].risk #
                 calculateRisk([j \in 1..Len(priceData) |->
                                   [processed.out[j] EXCEPT !.risk = I(5)]],
                               VOOConfig, currentDate)[k].risk

-----------------------------------------------------------------------------
(* Specification of the CSV scripts.  The API serves one candle per day,    *)
(* stamped with the opening of the market, and the candle of the running    *)
(* day possibly with the time of the quote.  A file is generated from the   *)
(* whole history and then updated, any number of times, from the recent     *)
(* candles; in the end it is read back.                                     *)

\* the instant of a candle: the market opens at 12:00 UTC, a quote of the
\* running day may be stamped 18:00
MarketOpen == 2
CandleOffsets == {MarketOpen, MarketOpen + 1}

Candle(day, offset, price) == [date |-> Midnight(day) + offset, price |-> I(price)]

\* the runs that are looked at: the scripts for all stocks on a young symbol
\* and on one with HistoryLen days of flat history, enough for sma50 to
\* exist; the NVDA scripts on a young history
CsvScenarios ==
    { [script |-> "all", history |-> 0, prices |-> {10, 12}],
      [script |-> "nvda", history |-> 0, prices |-> {10, 12}],
      [script |-> "all", history |-> HistoryLen, prices |-> {10}] }

\* the candles of the days before the ones that are looked at
FlatHistory(history) == [k \in 1..history |-> Candle(k - 1, MarketOpen, 10)]

\* the responses with the candles of the consecutive days from..to, the last
\* of them possibly of the running day
RecentCandles(sc, from, to) ==
    { [k \in 1..(to - from + 1) |->
          Candle(from + k - 1, IF from + k - 1 = to THEN last ELSE MarketOpen,
                 price[from + k - 1])] :
        price \in [from..to -> sc.prices], last \in CandleOffsets }

\* what /api/stock-analysis?symbol= may return: the whole history
FullResponses(sc) ==
    UNION { {FlatHistory(sc.history) \o recent :
                recent \in RecentCandles(sc, sc.history, to)} :
            to \in sc.history..(sc.history + MaxDay) }

\* what the API may return for the last two weeks
LatestResponses(sc) ==
    UNION { RecentCandles(sc, from, to) :
            from \in sc.history..(sc.history + MaxDay),
            to \in sc.history..(sc.history + MaxDay) } \ {<<>>}

CsvInit ==
    /\ csvScenario \in CsvScenarios
    /\ csvFile = NoFile
    /\ csvWritten = <<>>
    /\ csvLoaded = NotRun
    /\ currentDate = Midnight(csvScenario.history + MaxDay + 1)
    /\ dataPoints = <<>>
    /\ config = NoConfig
    /\ scored = NotRun
    /\ rescored = NotRun
    /\ legacyScored = NotRun
    /\ scoredLater = NotRun
    /\ MAIdle
    /\ ChartIdle
    /\ BatchIdle
    /\ SvcIdle
    /\ ClientIdle

\* the data is written to the file, which stays within MaxRows rows
Write(data) ==
    /\ Len(data) <= csvScenario.history + MaxRows
    /\ csvWritten' = data
    /\ csvFile' = writeCSV(data)

\* generateStockCSV(symbol) / generateCSV(), run to create the file
GenerateCSV ==
    /\ ~csvFile.exists
    /\ ~csvLoaded.done
    /\ \E response \in FullResponses(csvScenario) :
          \E data \in {generateCSV(csvScenario.script, response, currentDate)} :
             Write(data)
    /\ UNCHANGED <<csvScenario, csvLoaded, maVars, riskVars, svcVars, clientVars, chartVars, batchVars>>

\* updateStockCSV(symbol) on the file that exists (without a file it calls
\* generateStockCSV, which is GenerateCSV)
UpdateStockCSV ==
    /\ csvScenario.script = "all"
    /\ csvFile.exists
    /\ ~csvLoaded.done
    /\ \E existingData \in {loadExistingCSV(csvFile)} :
          /\ existingData # <<>>
          /\ \E latestData \in LatestResponses(csvScenario) :
                \E data \in {updateStockCSV(existingData, latestData, currentDate)} :
                   IF data = <<>> THEN UNCHANGED <<csvWritten, csvFile>> ELSE Write(data)
    /\ UNCHANGED <<csvScenario, csvLoaded, maVars, riskVars, svcVars, clientVars, chartVars, batchVars>>

\* updateCSVIncremental() on the file that exists (without a file it returns)
UpdateCSVIncremental ==
    /\ csvScenario.script = "nvda"
    /\ csvFile.exists
    /\ ~csvLoaded.done
    /\ \E existingData \in {loadExistingCSV(csvFile)} :
          /\ existingData # <<>>
          /\ \E latestData \in LatestResponses(csvScenario) :
                \E data \in {updateCSVIncremental(existingData,
                                                  latestData[Len(latestData)],
                                                  currentDate)} :
                   IF data = <<>> THEN UNCHANGED <<csvWritten, csvFile>> ELSE Write(data)
    /\ UNCHANGED <<csvScenario, csvLoaded, maVars, riskVars, svcVars, clientVars, chartVars, batchVars>>

\* loadExistingCSV(symbol): the file is read back
LoadExistingCSV ==
    /\ csvFile.exists
    /\ ~csvLoaded.done
    /\ csvLoaded' = Ran(loadExistingCSV(csvFile))
    /\ UNCHANGED <<csvScenario, csvFile, csvWritten, maVars, riskVars, svcVars, clientVars, chartVars, batchVars>>

CsvNext == GenerateCSV \/ UpdateStockCSV \/ UpdateCSVIncremental \/ LoadExistingCSV

CsvSpec == CsvInit /\ [][CsvNext]_vars

-----------------------------------------------------------------------------
(* Claims about the CSV files *)

\* the API response a file stands for: one candle per row
ResponseOf(file) ==
    [k \in 1..Len(file.lines) |->
        [date |-> file.lines[k].timestamp, price |-> file.lines[k].price]]

\* the file is what a full generation over its own prices writes
FullyGenerated(file) ==
    /\ file.exists
    /\ file = writeCSV(generateCSV(csvScenario.script, ResponseOf(file), currentDate))

\* an update run of update-all-stock-csvs.js that adds trailing rows
AppendsRows ==
    /\ csvScenario.script = "all"
    /\ csvFile.exists
    /\ Len(csvFile'.lines) > Len(csvFile.lines)

\* C11: when an update run adds trailing points to a file that a full
\* generation produced, the file it writes has, for every row, the averages
\* and the risk a full generation over all the prices writes at the same
\* current date.
C11_UpdateEqualsRegeneration ==
    [][(FullyGenerated(csvFile) /\ AppendsRows) => FullyGenerated(csvFile')]_vars

\* the rows of a file with timestamp t
RowsAt(file, t) == {k \in 1..Len(file.lines) : file.lines[k].timestamp = t}

\* the rows of the file before an update whose price the update changed
RevisedRows ==
    {k \in 1..Len(csvFile.lines) :
        \E j \in RowsAt(csvFile', csvFile.lines[k].timestamp) :
            csvFile'.lines[j].price # csvFile.lines[k].price}

\* C12: an update run on an existing file keeps every row with its
\* timestamp, and changes the price of at most one existing row, which is
\* the row with the greatest timestamp.
C12_AppendOnlyTrailingRevision ==
    [][(csvFile.exists /\ csvFile' # csvFile) =>
            /\ \A k \in 1..Len(csvFile.lines) :
                    RowsAt(csvFile', csvFile.lines[k].timestamp) # {}
            /\ Cardinality(RevisedRows) <= 1
            /\ \A k \in RevisedRows :
                    \A j \in 1..Len(csvFile.lines) :
                        csvFile.lines[j].timestamp <= csvFile.lines[k].timestamp]_vars

\* C13: the rows read back by loadExistingCSV are as many as the rows
\* writeCSV was given, each with the same date, price and timestamp and, to
\* two decimal places, the same averages and risk.
C13_RoundTrip ==
    csvLoaded.done =>
        /\ Len(csvLoaded.out) = Len(csvWritten)
        /\ \A k \in 1..Len(csvWritten) :
               /\ csvLoaded.out[k].date = csvWritten[k].date
               /\ csvLoaded.out[k].price = csvWritten[k].price
               /\ csvLoaded.out[k].timestamp = csvWritten[k].timestamp
               /\ \A field \in {"ema8", "ema21", "sma50", "sma100", "sma200",
                                 "sma400", "risk"} :
                      ToFixed2(csvLoaded.out[k][field]) = ToFixed2(csvWritten[k][field])

\* the averages and the risk of two rows agree to two decimal places
SameToTwoPlaces(row, other) ==
    \A field \in {"ema8", "ema21", "sma50", "sma100", "sma200", "sma400", "risk"} :
        ToFixed2(row[field]) = ToFixed2(other[field])

\* C13 (amended): the rows read back are as many as the rows written, each
\* with the same price and timestamp, with midnight UTC of the day of the
\* date written as its date and, to two decimal places, the same averages
\* and risk.
C13_RoundTripToTheDay ==
    csvLoaded.done =>
        /\ Len(csvLoaded.out) = Len(csvWritten)
        /\ \A k \in 1..Len(csvWritten) :
               /\ csvLoaded.out[k].date = 4 * (csvWritten[k].date \div 4)
               /\ csvLoaded.out[k].price = csvWritten[k].price
               /\ csvLoaded.out[k].timestamp = csvWritten[k].timestamp
               /\ SameToTwoPlaces(csvLoaded.out[k], csvWritten[k])

\* a file of several rows was read back, one of them with an average that
\* has more than two decimal places
C13_Witness ==
    /\ csvLoaded.done
    /\ Len(csvWritten) >= 2
    /\ \E k \in 1..Len(csvWritten) :
          /\ csvWritten[k].date # 4 * (csvWritten[k].date \div 4)
          /\ ParseFixed2(ToFixed2(csvWritten[k].ema8)) # csvWritten[k].ema8
          /\ csvLoaded.out[k].ema8 # csvWritten[k].ema8

\* C25: the rows of the file, once generated and after any sequence of update
\* runs, are in strictly increasing order of timestamp.
C25_RowsStrictlyIncreasing ==
    csvFile.exists =>
        \A k \in 1..(Len(csvFile.lines) - 1) :
            csvFile.lines[k].timestamp < csvFile.lines[k + 1].timestamp

\* C25 witness: a generated file has been updated to MaxRows rows, the last
\* of them stamped with the time of a quote
C25_Witness ==
    /\ csvFile.exists
    /\ Len(csvFile.lines) = csvScenario.history + MaxRows
    /\ csvWritten # <<>>
    /\ csvFile.lines[Len(csvFile.lines)].timestamp
           = Midnight(csvScenario.history + MaxDay) + MarketOpen + 1
    /\ \E k \in 1..(Len(csvFile.lines) - 1) :
           csvFile.lines[k + 1].timestamp - csvFile.lines[k].timestamp < 4

\* C26: after any sequence of updateStockCSV runs no two rows of the file
\* are less than 24 hours apart: a candle within 24 hours of a row revises
\* the row and is not appended.
C26_NoSecondRowForADay ==
    (csvScenario.script = "all" /\ csvFile.exists) =>
        \A j, k \in 1..Len(csvFile.lines) :
            j # k => Abs(csvFile.lines[j].timestamp - csvFile.lines[k].timestamp) >= 4

-----------------------------------------------------------------------------
(* Specification of the browser clients.  The page is served a CSV file of *)
(* up to MaxClientRows rows (or none, or something that is no CSV), the    *)
(* latest-price endpoint and the full APIs answer or fail, and each client *)
(* runs once.                                                              *)

\* the rows a served file is made of
ClientKinds == {Flat, <<12, 10, 10, 10, 10, 10, 8>>, NoHistory}

\* a line that is no data row, as in an error page
GarbageLine ==
    [date |-> 0, price |-> NaN, timestamp |-> 0,
     ema8 |-> ToFixed2(NaN), ema21 |-> ToFixed2(NaN), sma50 |-> ToFixed2(NaN),
     sma100 |-> ToFixed2(NaN), sma200 |-> ToFixed2(NaN), sma400 |-> ToFixed2(NaN),
     risk |-> ToFixed2(NaN)]

\* series of one row per day, the empty one included
ClientSeries ==
    {[k \in 1..Len(kinds) |-> Point(kinds[k], k - 1)] :
        kinds \in SeqsUpTo(ClientKinds, MaxClientRows)}

\* files as writeCSV leaves them: with the risks above, and with the risks the
\* script's scorer gave the rows on the day of the last row
ClientFiles ==
    {writeCSV(points).lines : points \in ClientSeries}
    \cup {writeCSV(legacyCalculateEMAFocusedRisk(points, Midnight(Len(points) - 1))).lines :
            points \in ClientSeries}

CsvResponses ==
    {[kind |-> "reject", lines |-> <<>>], [kind |-> "notOk", lines |-> <<GarbageLine>>],
     [kind |-> "ok", lines |-> <<GarbageLine>>]}
    \cup {[kind |-> "ok", lines |-> lines] : lines \in ClientFiles}

\* the latest price: of the first day at noon, of the second day at noon, or
\* of a later day; or no answer
LatestResults ==
    {[kind |-> "ok", dataDate |-> Midnight(day) + MarketOpen, currentPrice |-> I(price),
      source |-> "Yahoo Finance"] : day \in {0, 1, 3}, price \in {10, 12}}
    \cup {[kind |-> kind, dataDate |-> 0, currentPrice |-> Zero, source |-> ""] :
            kind \in {"notOk", "reject", "badJson"}}

\* answers of /api/stock-analysis
AnalysisResults ==
    {[kind |-> "ok", currentRisk |-> Dec2(727), currentPrice |-> I(10)],
     [kind |-> "notOk", currentRisk |-> Zero, currentPrice |-> Zero],
     [kind |-> "reject", currentRisk |-> Zero, currentPrice |-> Zero]}

\* answers of /api/nvda-data-yahoo and, asked after it, /api/nvda-data
ChartApiResults ==
    {[yahoo |-> yahoo, finnhub |-> finnhub,
      result |-> [data |-> <<Point(Flat, 0), Point(<<12, 10, 10, 10, 10, 10, 8>>, 1)>>,
                  currentPrice |-> I(12), currentRisk |-> I(8),
                  source |-> "Yahoo Finance"]] :
        yahoo \in {"ok", "notOk", "reject"}, finnhub \in {"ok", "notOk"}}

ClientInit ==
    /\ clientCsv \in CsvResponses
    /\ clientLatest \in LatestResults
    /\ fetchApi \in AnalysisResults
    /\ chartApi \in ChartApiResults
    /\ fetched = NotRun
    /\ charted = NotRun
    /\ currentDate = Midnight(MaxClientRows + 3)
    /\ dataPoints = <<>>
    /\ config = NoConfig
    /\ scored = NotRun
    /\ rescored = NotRun
    /\ legacyScored = NotRun
    /\ scoredLater = NotRun
    /\ MAIdle
    /\ ChartIdle
    /\ BatchIdle
    /\ SvcIdle
    /\ CsvIdle

\* getCurrentRiskAndPrice(symbol)
GetCurrentRiskAndPrice ==
    /\ ~fetched.done
    /\ fetched' = Ran(getCurrentRiskAndPrice(clientCsv, clientLatest, fetchApi))
    /\ UNCHANGED <<clientCsv, clientLatest, fetchApi, chartApi, charted,
                   maVars, riskVars, svcVars, csvVars, chartVars, batchVars>>

\* the effect of NVDARiskChart that runs fetchData
FetchData ==
    /\ ~charted.done
    /\ charted' = Ran(fetchData(clientCsv, clientLatest, chartApi, currentDate))
    /\ UNCHANGED <<clientCsv, clientLatest, fetchApi, chartApi, fetched,
                   maVars, riskVars, svcVars, csvVars, chartVars, batchVars>>

ClientNext == GetCurrentRiskAndPrice \/ FetchData

ClientSpec == ClientInit /\ [][ClientNext]_vars

\* a line of the served file that is a data row: its price is a positive number
UsableLine(line) == ~IsNaN(line.price) /\ RGt(line.price, Zero)

\* the CSV file was served and has at least one data row
CsvAvailable ==
    /\ clientCsv.kind = "ok"
    /\ \E k \in 1..Len(clientCsv.lines) : UsableLine(clientCsv.lines[k])

\* the last data row of the served file
LastRow ==
    LET rows == {k \in 1..Len(clientCsv.lines) : UsableLine(clientCsv.lines[k])}
    IN  clientCsv.lines[CHOOSE k \in rows : \A j \in rows : j <= k]

\* C16: getCurrentRiskAndPrice (a) answers 'CSV + Latest API' when the CSV
\* has a row and the latest-price call succeeds, (b) does not throw and
\* answers the last row's risk and price as 'CSV Historical Data' when the
\* CSV has a row and the latest-price call fails in any way, (c) answers
\* from the full API as 'API' when the CSV is missing, unreadable or empty,
\* and (d) throws only when the CSV is unavailable and the full API fails.
C16_FetchFallbackChain ==
    fetched.done =>
        /\ (CsvAvailable /\ clientLatest.kind = "ok") =>
               (~fetched.out.thrown /\ fetched.out.dataSource = "CSV + Latest API")
        /\ (CsvAvailable /\ clientLatest.kind # "ok") =>
               /\ ~fetched.out.thrown
               /\ fetched.out.dataSource = "CSV Historical Data"
               /\ fetched.out.currentPrice = LastRow.price
               /\ fetched.out.currentRisk = ParseFixed2(LastRow.risk)
        /\ (~CsvAvailable /\ fetchApi.kind = "ok") =>
               /\ ~fetched.out.thrown
               /\ fetched.out.dataSource = "API"
               /\ fetched.out.currentPrice = fetchApi.currentPrice
               /\ fetched.out.currentRisk = fetchApi.currentRisk
        /\ fetched.out.thrown <=> (~CsvAvailable /\ fetchApi.kind # "ok")

\* C16 witness: a file of several rows was served, the latest-price call
\* was rejected and the full API was down; the last row was answered
C16_Witness ==
    /\ fetched.done
    /\ CsvAvailable
    /\ Len(clientCsv.lines) >= 2
    /\ clientLatest.kind = "reject"
    /\ fetchApi.kind = "reject"
    /\ fetched.out.dataSource = "CSV Historical Data"
    /\ fetched.out.currentRisk = I(8)
    /\ fetched.out.currentRisk # ClientParseLine(clientCsv.lines[1]).risk

\* the first row of the served file within 24 hours of the latest price, 0 if
\* there is none
RevisedRow ==
    LET near == {k \in 1..Len(clientCsv.lines) :
                    Abs(clientCsv.lines[k].timestamp - clientLatest.dataDate) < 4}
    IN  IF near = {} THEN 0 ELSE CHOOSE k \in near : \A j \in near : k <= j

\* the served rows with the price of row k replaced, every risk left as it is
RowsWithPrice(k, price) ==
    [j \in 1..Len(clientCsv.lines) |->
        IF j = k THEN [ClientParseLine(clientCsv.lines[j]) EXCEPT !.price = price]
        ELSE ClientParseLine(clientCsv.lines[j])]

\* C20: when the latest price is within 24 hours of a row of the CSV and
\* differs from the row's price, the row handed to the chart has the new
\* price and the risk the chart's scorer gives it for the new price, and it
\* is the current risk shown when the row is the last.
C20_RevisedPriceRescored ==
    (/\ charted.done
     /\ CsvAvailable
     /\ \A k \in 1..Len(clientCsv.lines) : UsableLine(clientCsv.lines[k])
     /\ clientLatest.kind = "ok"
     /\ RevisedRow # 0
     /\ clientCsv.lines[RevisedRow].price # clientLatest.currentPrice) =>
        LET k == RevisedRow
            expected == legacyCalculateEMAFocusedRisk(
                            RowsWithPrice(k, clientLatest.currentPrice), currentDate)
        IN  /\ ~charted.out.error
            /\ charted.out.data[k].price = clientLatest.currentPrice
            /\ charted.out.data[k].risk = expected[k].risk
            /\ k = Len(clientCsv.lines) => charted.out.currentRisk = expected[k].risk

\* the rows of the served file as the chart reads them
ChartRows == loadHistoricalDataFromCSV(clientCsv)

\* the last row that is pre-calculated: ema8, ema21 and risk above zero
LastPrecalculated(rows) ==
    LET calculated == {k \in 1..Len(rows) :
                          /\ RGt(rows[k].ema8, Zero)
                          /\ RGt(rows[k].ema21, Zero)
                          /\ RGt(rows[k].risk, Zero)}
    IN  IF calculated = {} THEN 0 ELSE CHOOSE k \in calculated : \A j \in calculated : j <= k

\* the latest price arrived and is a new point after every row of the file
LatestAppended ==
    /\ clientCsv.kind = "ok"
    /\ Len(ChartRows) > 0
    /\ clientLatest.kind = "ok"
    /\ FindExistingLatest(ChartRows, clientLatest.dataDate) = 0
    /\ \A k \in 1..Len(ChartRows) : ChartRows[k].timestamp < clientLatest.dataDate

\* C21: when processOptimizedDataset is handed the rows of the CSV followed
\* by a new point (ema8 = 0), every row up to the last pre-calculated one
\* comes out with exactly its persisted ema8, ema21, sma50, sma100, sma200,
\* sma400 and risk.
C21_PrecalculatedPrefixKept ==
    (charted.done /\ LatestAppended) =>
        /\ ~charted.out.error
        /\ Len(charted.out.data) = Len(ChartRows) + 1
        /\ \A k \in 1..LastPrecalculated(ChartRows) :
               /\ charted.out.data[k].ema8 = ChartRows[k].ema8
               /\ charted.out.data[k].ema21 = ChartRows[k].ema21
               /\ charted.out.data[k].sma50 = ChartRows[k].sma50
               /\ charted.out.data[k].sma100 = ChartRows[k].sma100
               /\ charted.out.data[k].sma200 = ChartRows[k].sma200
               /\ charted.out.data[k].sma400 = ChartRows[k].sma400
               /\ charted.out.data[k].risk = ChartRows[k].risk

\* riskThresholds of the symbols of STOCK_CONFIGS: the defaults (NVDA, MSFT,
\* AAPL, GOOGL, AMZN, UNH), VOO, TSLA and GRAL, META, BTC and ETH
ConfiguredThresholds ==
    {DEFAULT_CONFIG.riskThresholds,
     [yellowTerritory |-> Dec2(10), elevatedTerritory |-> Dec2(5), nearEMA |-> Dec2(-3)],
     [yellowTerritory |-> Dec2(20), elevatedTerritory |-> Dec2(10), nearEMA |-> Dec2(-8)],
     [yellowTerritory |-> Dec2(18), elevatedTerritory |-> Dec2(10), nearEMA |-> Dec2(-8)],
     [yellowTerritory |-> Dec2(25), elevatedTerritory |-> Dec2(15), nearEMA |-> Dec2(-10)]}

\* the rows of the served file as getCurrentRiskAndPrice reads them
UtilRows == loadDataFromStockCSV(clientCsv)

\* getCurrentRiskAndPrice recalculated the risk it returns: the latest price
\* is a new point, or revises the price of the last row
RecalculatesLast ==
    /\ CsvAvailable
    /\ clientLatest.kind = "ok"
    /\ LET found == FindExistingLatest(UtilRows, clientLatest.dataDate)
       IN  \/ found = 0
           \/ /\ found = Len(UtilRows)
              /\ PriceChanged(UtilRows[found].price, clientLatest.currentPrice)

\* the last row with the latest price: what the risk is recalculated from
LatestPoint == [UtilRows[Len(UtilRows)] EXCEPT !.price = clientLatest.currentPrice]

\* C22: the risk getCurrentRiskAndPrice recalculates with
\* calculateRiskFromDeviations is, for every symbol of STOCK_CONFIGS, the base
\* risk STEP 1 of the ema-focused scorer gives the same deviations under the
\* risk thresholds of that symbol.
C22_ClientMatchesScorerBase ==
    (fetched.done /\ RecalculatesLast) =>
        \A thresholds \in ConfiguredThresholds :
            fetched.out.currentRisk =
                Round2(BaseRisk(DeviationOrZero(LatestPoint.price, LatestPoint.ema8),
                                DeviationOrZero(LatestPoint.price, LatestPoint.ema21),
                                DeviationOrZero(LatestPoint.price, LatestPoint.sma50),
                                DeviationOrZero(LatestPoint.price, LatestPoint.sma100),
                                DeviationOrZero(LatestPoint.price, LatestPoint.sma200),
                                thresholds))

-----------------------------------------------------------------------------
(* Specification of two runs at different dates: calculateRisk scores a    *)
(* series, and scores it again, unchanged, when new Date() is some days    *)
(* later.                                                                  *)

\* days between the last point and the first run: two years, a day short of
\* three and a half years, and more than four years
AsOfAges == {730, 1278, 1500}

\* days between the two runs
LaterDays == {1, 400}

AsOfScenarios ==
    {[config |-> c, prefixLen |-> 0, age |-> a, kinds |-> PointKinds] :
        c \in {[algorithm |-> "ema-focused"], VOOConfig}, a \in AsOfAges}
    \cup
    {[config |-> [algorithm |-> "ema-focused"], prefixLen |-> VolHistory + 1,
      age |-> a, kinds |-> VolatileKinds] : a \in AsOfAges}

AsOfInit ==
    /\ \E sc \in AsOfScenarios :
        \E tail \in SeqsUpTo(sc.kinds, MaxTail) :
          /\ tail # <<>>
          /\ dataPoints = Series(NoHistory, sc.prefixLen, tail)
          /\ config = sc.config
          /\ currentDate = Midnight(sc.prefixLen + Len(tail) - 1 + sc.age)
    /\ scored = NotRun
    /\ rescored = NotRun
    /\ legacyScored = NotRun
    /\ scoredLater = NotRun
    /\ MAIdle
    /\ ChartIdle
    /\ BatchIdle
    /\ SvcIdle
    /\ CsvIdle
    /\ ClientIdle

\* calculateRisk(dataPoints, config) when new Date() is some days later
ScoreLater ==
    /\ ~scoredLater.done
    /\ \E days \in LaterDays :
          LET asOf == currentDate + Midnight(days)
          IN  scoredLater' = [done |-> TRUE, asOf |-> asOf,
                              out |-> calculateRisk(dataPoints, config, asOf)]
    /\ UNCHANGED <<dataPoints, config, currentDate, scored, rescored, legacyScored,
                   maVars, svcVars, csvVars, clientVars, chartVars, batchVars>>

AsOfNext == Score \/ ScoreLater

AsOfSpec == AsOfInit /\ [][AsOfNext]_vars

\* the recency weight of the point is at most 0.3 at the date
BeyondHorizon(point, asOf) == RLe(ModernWeight(point, asOf), Dec2(30))

\* C30: of two ema-focused runs over the same series at different dates,
\* every point whose recency weight is at most 0.3 at both dates gets the
\* same risk in both.
C30_AsOfOnlyInsideHorizon ==
    (scored.done /\ scoredLater.done /\ EmaFocusedRun) =>
        \A k \in 1..Len(dataPoints) :
            (/\ BeyondHorizon(dataPoints[k], currentDate)
             /\ BeyondHorizon(dataPoints[k], scoredLater.asOf)) =>
                scoredLater.out[k].risk = scored.out[k].risk

\* C30 witness: a series more than four years old with a point far above its
\* averages was scored twice, 400 days apart; no point is within the horizon
\* at either date, and the series would be scored otherwise on its last day
C30_Witness ==
    /\ scored.done
    /\ scoredLater.done
    /\ EmaFocusedRun
    /\ scoredLater.asOf = currentDate + Midnight(400)
    /\ \A k \in 1..Len(dataPoints) : BeyondHorizon(dataPoints[k], currentDate)
    /\ \E k \in 1..Len(dataPoints) :
          /\ ~HasMissingAverage(dataPoints[k])
          /\ RGe(scored.out[k].risk, I(7))
          /\ calculateRisk(dataPoints, config,
                           dataPoints[Len(dataPoints)].date)[k].risk
                 # scored.out[k].risk

-----------------------------------------------------------------------------
(* Specification of runs with any thresholds: calculateRisk scores one     *)
(* point under a riskThresholds triple of any three numbers, equal,        *)
(* misordered or infinite.                                                 *)

ThresholdValues == {NegInf, Dec2(-5), Zero, Dec2(8), Dec2(15)}

ThresholdTriples ==
    {[yellowTerritory |-> y, elevatedTerritory |-> e, nearEMA |-> n] :
        y \in ThresholdValues, e \in ThresholdValues, n \in ThresholdValues}

\* points 16.7% below ema8, at ema8, and 6%, 11% and 20% above
ThresholdKinds ==
    { <<10, 12, 10, 10, 10, 9, 5>>,
      Flat,
      <<53, 50, 50, 50, 50, 50, 5>>,
      <<10, 9, 10, 10, 10, 10, 7>>,
      <<12, 10, 10, 10, 10, 10, 5>> }

ThresholdInit ==
    /\ \E kind \in ThresholdKinds, thresholds \in ThresholdTriples :
          /\ dataPoints = Series(NoHistory, 0, <<kind>>)
          /\ config = [algorithm |-> "ema-focused", riskThresholds |-> thresholds]
    /\ currentDate = 0
    /\ scored = NotRun
    /\ rescored = NotRun
    /\ legacyScored = NotRun
    /\ scoredLater = NotRun
    /\ MAIdle
    /\ ChartIdle
    /\ BatchIdle
    /\ SvcIdle
    /\ CsvIdle
    /\ ClientIdle

ThresholdNext == Score

ThresholdSpec == ThresholdInit /\ [][ThresholdNext]_vars

\* the branch of STEP 1 a deviation from ema8 takes
TakesElevatedBranch(dev8EMA, thresholds) ==
    /\ ~RGe(dev8EMA, thresholds.yellowTerritory)
    /\ RGe(dev8EMA, thresholds.elevatedTerritory)
TakesNearBranch(dev8EMA, thresholds) ==
    /\ ~RGe(dev8EMA, thresholds.yellowTerritory)
    /\ ~RGe(dev8EMA, thresholds.elevatedTerritory)
    /\ RGe(dev8EMA, thresholds.nearEMA)

FiniteThresholds(thresholds) ==
    /\ IsFinite(thresholds.yellowTerritory)
    /\ IsFinite(thresholds.elevatedTerritory)
    /\ IsFinite(thresholds.nearEMA)

-----------------------------------------------------------------------------
(* Specification of the StockRiskChart component: the fetch effect runs    *)
(* at mount and again whenever the symbol changes; every run is an async   *)
(* function that settles at a time of its own.                             *)

MaxRequests == 3

ChartSymbols == {"NVDA", "TSLA", "VOO"}

\* the response of /api/stock-analysis (or of the CSV file) for a symbol
ResultOf(symbol) ==
    LET price == CASE symbol = "NVDA" -> I(10)
                   [] symbol = "TSLA" -> I(20)
                   [] OTHER -> I(30)
        risk == CASE symbol = "NVDA" -> I(5)
                  [] symbol = "TSLA" -> I(6)
                  [] OTHER -> I(7)
    IN  [data |-> <<[symbol |-> symbol, price |-> price, risk |-> risk]>>,
         currentPrice |-> price,
         currentRisk |-> risk]

\* the useState values of the component at mount
InitialChartState ==
    [data |-> <<>>, currentPrice |-> Zero, currentRisk |-> Zero,
     loading |-> TRUE, error |-> "null"]

\* the start of fetchData: a request in flight, loading set, error cleared
StartFetch(symbol, state) ==
    [state EXCEPT !.loading = TRUE, !.error = "null"]

ChartInit ==
    /\ \E symbol \in ChartSymbols :
          /\ chartSymbol = symbol
          /\ chartRequests = <<[symbol |-> symbol, status |-> "pending"]>>
          /\ chartState = StartFetch(symbol, InitialChartState)
    /\ BatchIdle
    /\ MAIdle
    /\ RiskIdle
    /\ SvcIdle
    /\ CsvIdle
    /\ ClientIdle

\* the symbol prop changes: the effect runs again and calls fetchData
ChangeSymbol ==
    /\ Len(chartRequests) < MaxRequests
    /\ \E symbol \in ChartSymbols \ {chartSymbol} :
          /\ chartSymbol' = symbol
          /\ chartRequests' = Append(chartRequests,
                                     [symbol |-> symbol, status |-> "pending"])
          /\ chartState' = StartFetch(symbol, chartState)
    /\ UNCHANGED <<maVars, riskVars, svcVars, csvVars, clientVars, batchVars>>

\* a fetchData in flight gets its response: the setters, then the finally
ResolveFetch ==
    /\ \E i \in DOMAIN chartRequests :
          /\ chartRequests[i].status = "pending"
          /\ chartRequests' = [chartRequests EXCEPT ![i].status = "ok"]
          /\ LET result == ResultOf(chartRequests[i].symbol)
             IN  chartState' = [chartState EXCEPT !.data = result.data,
                                                  !.currentPrice = result.currentPrice,
                                                  !.currentRisk = result.currentRisk,
                                                  !.loading = FALSE]
    /\ UNCHANGED <<chartSymbol, maVars, riskVars, svcVars, csvVars, clientVars, batchVars>>

\* a fetchData in flight fails: the catch, then the finally
RejectFetch ==
    /\ \E i \in DOMAIN chartRequests :
          /\ chartRequests[i].status = "pending"
          /\ chartRequests' = [chartRequests EXCEPT ![i].status = "failed"]
          /\ chartState' = [chartState EXCEPT !.error = "Failed to fetch data",
                                               !.loading = FALSE]
    /\ UNCHANGED <<chartSymbol, maVars, riskVars, svcVars, csvVars, clientVars, batchVars>>

ChartNext == ChangeSymbol \/ ResolveFetch \/ RejectFetch

ChartSpec == ChartInit /\ [][ChartNext]_vars

AllSettled == \A i \in DOMAIN chartRequests : chartRequests[i].status # "pending"

\* C27: once every fetch has settled and loading is false, the data, the
\* current price and the current risk of the component are those of the
\* response to the latest request (when that request succeeded), in whatever
\* order the responses came.
C27_NoStaleResponse ==
    (/\ AllSettled
     /\ ~chartState.loading
     /\ chartRequests[Len(chartRequests)].status = "ok") =>
        LET result == ResultOf(chartSymbol)
        IN  /\ chartState.data = result.data
            /\ chartState.currentPrice = result.currentPrice
            /\ chartState.currentRisk = result.currentRisk

-----------------------------------------------------------------------------
(* Specification of updateAllCSVs: the symbols of STOCK_CONFIGS are        *)
(* updated one after the other, each by updateStockCSV, whose body is one  *)
(* try block; then the summary, the legacy copy and the exit.  A file is   *)
(* abstracted to the number of times it has been written.  The directory   *)
(* and the copy are taken to work.                                         *)

\* the first keys of STOCK_CONFIGS, in their order
BatchSymbols == <<"VOO", "NVDA", "MSFT">>

Written(n) == [exists |-> TRUE, lines |-> <<n>>]

\* what updateStockCSV can come to for a symbol whose file is as given
OutcomesFor(file) ==
    IF file.exists
    THEN {"added", "revised", "unchanged", "failed"}
    ELSE {"generated", "failed"}

\* the file of the symbol after updateStockCSV came to the outcome
FileAfter(file, outcome) ==
    CASE outcome \in {"added", "revised"} -> Written(file.lines[1] + 1)
      [] outcome = "generated" -> Written(1)
      [] OTHER -> file

\* the value updateStockCSV returns
ResultFor(symbol, outcome) == [symbol |-> symbol, success |-> outcome # "failed"]

\* every result of an array has success false
ExitCodeIfAllFailed(results) ==
    IF results # <<>> /\ \A i \in DOMAIN results : ~results[i].success THEN 1 ELSE 0

\* the exit code of the process: 1 if failed.length > 0
ExitCode(results) ==
    IF \E i \in DOMAIN results : ~results[i].success THEN 1 ELSE 0

\* the legacy file after the backward-compatibility copy
LegacyCopy(results, files, legacy) ==
    IF /\ \E i \in DOMAIN results : results[i].success /\ results[i].symbol = "NVDA"
       /\ files["NVDA"].exists
    THEN files["NVDA"]
    ELSE legacy

BatchInit ==
    /\ batchOutcomes = <<>>
    /\ batchResults = <<>>
    /\ stockFiles \in [{BatchSymbols[i] : i \in DOMAIN BatchSymbols} -> {NoFile, Written(1)}]
    /\ legacyFile \in {NoFile, Written(0)}
    /\ exitCode = [kind |-> "running"]
    /\ ChartIdle
    /\ MAIdle
    /\ RiskIdle
    /\ SvcIdle
    /\ CsvIdle
    /\ ClientIdle

\* one turn of the loop: updateStockCSV(symbol), results.push(result)
UpdateNextSymbol ==
    /\ exitCode.kind = "running"
    /\ Len(batchResults) < Len(BatchSymbols)
    /\ LET symbol == BatchSymbols[Len(batchResults) + 1]
       IN  \E outcome \in OutcomesFor(stockFiles[symbol]) :
              /\ batchOutcomes' = Append(batchOutcomes, outcome)
              /\ batchResults' = Append(batchResults, ResultFor(symbol, outcome))
              /\ stockFiles' = [stockFiles EXCEPT
                                   ![symbol] = FileAfter(stockFiles[symbol], outcome)]
    /\ UNCHANGED <<legacyFile, exitCode, maVars, riskVars, svcVars, csvVars, clientVars,
                   chartVars>>

\* after the loop: the copy of NVDA.csv and the end of the process
FinishBatch ==
    /\ exitCode.kind = "running"
    /\ Len(batchResults) = Len(BatchSymbols)
    /\ legacyFile' = LegacyCopy(batchResults, stockFiles, legacyFile)
    /\ exitCode' = [kind |-> "exited", code |-> ExitCode(batchResults)]
    /\ UNCHANGED <<batchOutcomes, batchResults, stockFiles, maVars, riskVars, svcVars,
                   csvVars, clientVars, chartVars>>

BatchNext == UpdateNextSymbol \/ FinishBatch

BatchSpec == BatchInit /\ [][BatchNext]_vars

Succeeded(results, symbol) ==
    \E i \in DOMAIN results : results[i].symbol = symbol /\ results[i].success

====
